---------------------------- MODULE Spec2Model ----------------------------
(***************************************************************************)
(* routegraphs: a topology store filled from route dumps and registry ROA  *)
(* objects (mrt2sql.py), read by the ROA validator (roacheck.py) and by    *)
(* the path resolution engine (routegraphs.py).                            *)
(*                                                                         *)
(* Addresses are the packed byte strings the code stores (4 bytes for      *)
(* IPv4, 16 for IPv6), as sequences of numbers 0..255.  A text such as     *)
(* "10.0.0.0/24" is the record [address, slash, length]: the bytes its     *)
(* address part parses to, whether a "/length" follows, and that length.   *)
(*                                                                         *)
(* dbinit.sql is not among the sources: the tables have the columns the    *)
(* INSERT and SELECT statements name, and INSERT OR IGNORE / OR REPLACE    *)
(* act on the keys that dbinit_sql below gives each table.                 *)
(***************************************************************************)
EXTENDS Integers, Sequences, FiniteSets, Bags, TLC

VARIABLES
    db,      \* the SQLite store as the open connection sees it: a record of tables
    pc,      \* position of the run: "parse_roa", "parse_mrt", then "serving" (the
             \* store is committed), "resolving", "done" and "saved" in a reader
    op,      \* the reader's last call: [name, args]
    ret,     \* what that call returned or raised
    as_names,\* parse_mrt: the AS names looked up so far in this dump
    stack,   \* asn_paths_to_prefix: the call stack of the resolver, innermost last
    summary, \* asns_paths_to_prefix: the merged result and the sources still to do
    disk,    \* the store as committed to the file, which is what a reader opens
    argv,    \* mrt2sql.main: the registry path and the number of dump files left
    records, \* the announcements the decoder has yielded so far, by dump file
    dot      \* routegraphs.graph: the statements of the drawn graph

vars == <<db, pc, op, ret, as_names, stack, summary, disk, argv, records, dot>>

---------------------------------------------------------------------------
(* Small helpers *)

Min(a, b) == IF a <= b THEN a ELSE b

Max(a, b) == IF a >= b THEN a ELSE b

Range(s) == {s[i] : i \in 1..Len(s)}

\* the `n` zero bytes that follow `head` in a packed address of `n + Len(head)` bytes
Pad(head, n) == head \o [i \in 1..n |-> 0]

\* text of a CIDR "address/length", and of a bare address
CIDR(a, l) == [address |-> a, slash |-> TRUE, length |-> l]

IP(a) == [address |-> a, slash |-> FALSE, length |-> 0]

---------------------------------------------------------------------------
(* Packed addresses *)

\* number of host bits that fall into byte i (1 = most significant) of an
\* n-byte address with `hostbits` host bits
HostBitsIn(i, n, hostbits) == Min(8, Max(0, hostbits - 8 * (n - i)))

\* SQLite's comparison of two BLOBs: memcmp over the common length, then the
\* shorter one is the smaller
BlobLess(a, b) ==
    \/ \E i \in 1..Min(Len(a), Len(b)) :
          /\ a[i] < b[i]
          /\ \A j \in 1..(i - 1) : a[j] = b[j]
    \/ /\ Len(a) < Len(b)
       /\ \A j \in 1..Len(a) : a[j] = b[j]

BlobLE(a, b) == a = b \/ BlobLess(a, b)

\* mrt2sql.unpack_cidr: (packed network address, prefix length, packed
\* broadcast address); the address is taken as written (host bits are kept),
\* the broadcast address is address | ((1 << (ip_bits - length)) - 1)
unpack_cidr(prefix) ==
    LET network_address_packed == prefix.address
        n == Len(network_address_packed)
        ip_bits == IF n = 16 THEN 128 ELSE 32
        hostbits == ip_bits - prefix.length
        broadcast_address_packed ==
            [i \in 1..n |->
                LET k == HostBitsIn(i, n, hostbits)
                IN  (network_address_packed[i] \div (2 ^ k)) * (2 ^ k) + (2 ^ k) - 1]
    IN  <<network_address_packed, prefix.length, broadcast_address_packed>>

\* utils.get_cidr: the text "<inet_ntop(network)>/<length>" of a stored row; the
\* family is chosen by the blob's width, the address text is kept as its groups
\* (4 decimal octets, or 8 hextets given as <<high byte, low byte>>)
get_cidr(network_binary, prefix_length) ==
    IF Len(network_binary) = 16
    THEN [family |-> "AF_INET6",
          network |-> [g \in 1..8 |-> <<network_binary[2 * g - 1], network_binary[2 * g]>>],
          length |-> prefix_length]
    ELSE [family |-> "AF_INET",
          network |-> [g \in 1..4 |-> <<network_binary[g]>>],
          length |-> prefix_length]

\* ipaddress.ip_network(text, strict=False): host bits are masked off; a bare
\* address is the full-length network
ip_network(text) ==
    LET n == Len(text.address)
        prefixlen == IF text.slash THEN text.length ELSE 8 * n
        hostbits == 8 * n - prefixlen
    IN  [network_address |->
            [i \in 1..n |->
                LET k == HostBitsIn(i, n, hostbits)
                IN  (text.address[i] \div (2 ^ k)) * (2 ^ k)],
         prefixlen |-> prefixlen]

\* ipaddress: IPv4Network.num_addresses == 1
is_single_address(ipn) == ipn.prefixlen = 8 * Len(ipn.network_address)

\* ipaddress.ip_network((packed, length)) with strict=True: a ValueError when
\* host bits are set
has_host_bits(network, length) ==
    ip_network(CIDR(network, length)).network_address # network

---------------------------------------------------------------------------
(* The store *)

\* the schema in which Prefixes declares no key
dbinit_sql_prefixes_unkeyed ==
    [ASNs |-> {{"asn"}},
     Prefixes |-> {},
     Paths |-> {{"path_id", "list_index"}},
     NeighbourASNs |-> {{"receiver_asn", "sender_asn"}},
     PrefixPaths |-> {{"prefix_network", "prefix_length", "path_id"}},
     Announcements |-> {{"asn", "prefix_network", "prefix_length"}},
     ROAEntries |-> {{"network", "length", "asn", "max_length"}}]

\* The schema, as far as the statements of the code depend on it: for each
\* table the sets of columns declared PRIMARY KEY or UNIQUE.  Two rows of a
\* table never agree on every column of one of its keys.
dbinit_sql ==
    [ASNs |-> {{"asn"}},
     Prefixes |-> {{"network", "length"}},
     Paths |-> {{"path_id", "list_index"}},
     NeighbourASNs |-> {{"receiver_asn", "sender_asn"}},
     PrefixPaths |-> {{"prefix_network", "prefix_length", "path_id"}},
     Announcements |-> {{"asn", "prefix_network", "prefix_length"}},
     ROAEntries |-> {{"network", "length", "asn", "max_length"}}]

\* mrt2sql.db_init: the empty tables of dbinit.sql.  A table is the set of
\* its rows; Prefixes is the bag of its rows, which holds a row as often as
\* it has been inserted when no key keeps the second one out.
db_init ==
    [ASNs |-> {}, Prefixes |-> EmptyBag, Paths |-> {}, NeighbourASNs |-> {},
     PrefixPaths |-> {}, Announcements |-> {}, ROAEntries |-> {}]

\* the rows that stand in the way of `row`: they agree with it on a key
conflicts(rows, keys, row) ==
    {r \in rows : \E key \in keys : \A c \in key : r[c] = row[c]}

\* INSERT OR IGNORE INTO a table: a row in conflict is not inserted
INSERT_OR_IGNORE(rows, keys, row) ==
    IF conflicts(rows, keys, row) # {} THEN rows ELSE rows \cup {row}

\* INSERT OR REPLACE INTO a table: the rows in conflict are deleted first
INSERT_OR_REPLACE(rows, keys, row) ==
    (rows \ conflicts(rows, keys, row)) \cup {row}

\* the orders in which a query "ORDER BY length DESC" may give its rows: rows
\* of equal length come in an order SQLite does not promise (it follows the
\* index the plan walks), so every order of them is one the query may fetch
OrderByLengthDesc(rows) ==
    {s \in [1..Cardinality(rows) -> rows] :
        /\ Range(s) = rows
        /\ \A i, j \in 1..Cardinality(rows) : i < j => s[i].length >= s[j].length}

---------------------------------------------------------------------------
(* Registry ROA objects: mrt2sql.parse_roa *)

_DEFAULT_V4_MAX_LENGTH == 29

_DEFAULT_V6_MAX_LENGTH == 64

\* the file whose max_length is the field or the default as it stands, also
\* when the prefix is longer
parse_roa_file_unfloored(d, roa_file) ==
    LET cidr == roa_file.cidr
        u == unpack_cidr(cidr)
        network_address_packed == u[1]
        prefix_length == u[2]
        broadcast_address_packed == u[3]
        default_max_length ==
            IF Len(cidr.address) = 16 THEN _DEFAULT_V6_MAX_LENGTH
            ELSE _DEFAULT_V4_MAX_LENGTH
        field == IF roa_file.max_length # <<>> THEN roa_file.max_length[1]
                 ELSE default_max_length
        max_length == field
        rows == {[network |-> network_address_packed, length |-> prefix_length,
                  broadcast_address |-> broadcast_address_packed,
                  asn |-> roa_file.origin[i], max_length |-> max_length]
                 : i \in 1..Len(roa_file.origin)}
    IN  [d EXCEPT !.ROAEntries = @ \cup {r \in rows :
                                             conflicts(@, dbinit_sql.ROAEntries, r) = {}}]

\* One file of data/route or data/route6: its name is the CIDR with "_" for
\* "/", `origin` lists the authorized ASNs, `max_length` is <<>> or <<n>>.
\* One ROAEntries row is inserted per origin ASN.
parse_roa_file(d, roa_file) ==
    LET cidr == roa_file.cidr
        u == unpack_cidr(cidr)
        network_address_packed == u[1]
        prefix_length == u[2]
        broadcast_address_packed == u[3]
        default_max_length ==
            IF Len(cidr.address) = 16 THEN _DEFAULT_V6_MAX_LENGTH
            ELSE _DEFAULT_V4_MAX_LENGTH
        field == IF roa_file.max_length # <<>> THEN roa_file.max_length[1]
                 ELSE default_max_length
        max_length == Max(prefix_length, field)
        rows == {[network |-> network_address_packed, length |-> prefix_length,
                  broadcast_address |-> broadcast_address_packed,
                  asn |-> roa_file.origin[i], max_length |-> max_length]
                 : i \in 1..Len(roa_file.origin)}
    IN  [d EXCEPT !.ROAEntries = @ \cup {r \in rows :
                                             conflicts(@, dbinit_sql.ROAEntries, r) = {}}]

---------------------------------------------------------------------------
(* The ROA validator: roacheck.py *)

\* check_roa with the "max_length >= ?" condition left out of the WHERE clause
check_roa_any_length(d, cidr, asn) ==
    LET u == unpack_cidr(cidr)
        roa_entries ==
            {[network |-> e.network, length |-> e.length,
              max_length |-> e.max_length, asn |-> e.asn]
             : e \in {e \in d.ROAEntries :
                        /\ BlobLE(e.network, u[1])
                        /\ BlobLE(u[3], e.broadcast_address)
                        /\ e.asn = asn}}
    IN  OrderByLengthDesc(roa_entries)

\* roacheck.check_roa: the lists fetchall() may give: the DISTINCT rows
\* (network, length, max_length, asn) of the entries WHERE network <= ? AND
\* broadcast_address >= ? AND asn == ? AND max_length >= ?, longest entry
\* first, in each order of the entries of equal length
check_roa(d, cidr, asn) ==
    LET u == unpack_cidr(cidr)
        network_addr == u[1]
        length == u[2]
        broadcast_addr == u[3]
        roa_entries ==
            {[network |-> e.network, length |-> e.length,
              max_length |-> e.max_length, asn |-> e.asn]
             : e \in {e \in d.ROAEntries :
                        /\ BlobLE(e.network, network_addr)
                        /\ BlobLE(broadcast_addr, e.broadcast_address)
                        /\ e.asn = asn
                        /\ e.max_length >= length}}
    IN  OrderByLengthDesc(roa_entries)

\* get_valid_origins comparing the entry's own length, not its max_length,
\* with the announced length
get_valid_origins_by_length(d, cidr) ==
    LET u == unpack_cidr(cidr)
        roa_entries ==
            {e \in d.ROAEntries :
                /\ BlobLE(e.network, u[1])
                /\ BlobLE(u[3], e.broadcast_address)
                /\ e.length >= u[2]}
    IN  [asn \in {e.asn : e \in roa_entries} |->
            {<<get_cidr(e.network, e.length), e.max_length>>
             : e \in {e \in roa_entries : e.asn = asn}}]

\* roacheck.get_valid_origins: ASN -> set of (roa_cidr, max_length), over the
\* entries WHERE network <= ? AND broadcast_address >= ? AND max_length >= ?
get_valid_origins(d, cidr) ==
    LET u == unpack_cidr(cidr)
        network_addr == u[1]
        length == u[2]
        broadcast_addr == u[3]
        roa_entries ==
            {e \in d.ROAEntries :
                /\ BlobLE(e.network, network_addr)
                /\ BlobLE(broadcast_addr, e.broadcast_address)
                /\ e.max_length >= length}
    IN  [asn \in {e.asn : e \in roa_entries} |->
            {<<get_cidr(e.network, e.length), e.max_length>>
             : e \in {e \in roa_entries : e.asn = asn}}]

---------------------------------------------------------------------------
(* Inputs of the ROA runs *)

Net10 == <<10, 0, 0, 0>>

\* the registry's route and route6 objects
RoaFiles ==
    { [cidr |-> CIDR(Net10, 23), origin |-> <<300>>, max_length |-> <<24>>],
      [cidr |-> CIDR(Net10, 24), origin |-> <<300, 400>>, max_length |-> <<>>],
      [cidr |-> CIDR(<<10, 0, 1, 0>>, 24), origin |-> <<999>>, max_length |-> <<24>>],
      [cidr |-> CIDR(Net10, 8), origin |-> <<400>>, max_length |-> <<32>>],
      [cidr |-> CIDR(Pad(<<253, 66>>, 14), 16), origin |-> <<300>>, max_length |-> <<>>],
      [cidr |-> CIDR(<<10, 0, 0, 8>>, 30), origin |-> <<300>>, max_length |-> <<>>],
      [cidr |-> CIDR(<<10, 0, 2, 0>>, 24), origin |-> <<400>>, max_length |-> <<16>>],
      [cidr |-> CIDR(<<10, 0, 0, 5>>, 24), origin |-> <<300>>, max_length |-> <<24>>] }

\* the announcements the validator is asked about
RoaQueryCidrs ==
    { CIDR(Net10, 24), CIDR(Net10, 25), CIDR(Net10, 23), CIDR(Net10, 22),
      CIDR(<<10, 0, 1, 0>>, 24), CIDR(<<10, 0, 2, 0>>, 24), CIDR(<<10, 0, 0, 8>>, 30),
      CIDR(<<10, 0, 0, 5>>, 24),
      CIDR(Pad(<<253, 66, 1>>, 13), 48), CIDR(Pad(<<253, 66, 1>>, 13), 80),
      CIDR(Pad(<<10, 0, 0, 1>>, 12), 32) }

RoaQueryAsns == {300, 400, 999}

NoCall == [name |-> "none", args |-> <<>>]

\* a registry path: whether main() was given one, the as-name of its aut-num
\* objects by ASN, and its route and route6 objects
NoRegistry == [given |-> FALSE, aut_num |-> <<>>, route |-> {}]

RoaRegistry == [given |-> TRUE, aut_num |-> <<>>, route |-> RoaFiles]

---------------------------------------------------------------------------
(* The ROA run: main() with a registry, and the validator reading the store *)

InitRoa ==
    /\ db = db_init
    /\ pc = "parse_roa"
    /\ op = NoCall
    /\ ret = <<>>
    /\ as_names = <<>>
    /\ stack = <<>>
    /\ summary = <<>>
    /\ disk = db_init
    /\ argv = [registry_path |-> RoaRegistry, mrt_filenames |-> 1]
    /\ records = <<>>
    /\ dot = <<>>

\* parse_roa: one turn of its loop over the registry's files
ParseRoaFile ==
    /\ pc = "parse_roa"
    /\ \E roa_file \in RoaFiles : db' = parse_roa_file(db, roa_file)
    /\ UNCHANGED <<pc, op, ret, as_names, stack, summary, disk, argv, records, dot>>

\* the files are exhausted; parse_mrt reads a dump without announcements and
\* commits
ParseRoaCommit ==
    /\ pc = "parse_roa"
    /\ pc' = "serving"
    /\ disk' = db
    /\ UNCHANGED <<db, op, ret, as_names, stack, summary, argv, records, dot>>

CallCheckRoa ==
    /\ pc = "serving"
    /\ \E cidr \in RoaQueryCidrs, asn \in RoaQueryAsns :
          /\ op' = [name |-> "check_roa", args |-> <<cidr, asn>>]
          /\ ret' \in check_roa(db, cidr, asn)
    /\ pc' = "done"
    /\ UNCHANGED <<db, as_names, stack, summary, disk, argv, records, dot>>

CallGetValidOrigins ==
    /\ pc = "serving"
    /\ \E cidr \in RoaQueryCidrs :
          /\ op' = [name |-> "get_valid_origins", args |-> <<cidr>>]
          /\ ret' = get_valid_origins(db, cidr)
    /\ pc' = "done"
    /\ UNCHANGED <<db, as_names, stack, summary, disk, argv, records, dot>>

NextRoa ==
    \/ ParseRoaFile
    \/ ParseRoaCommit
    \/ CallCheckRoa
    \/ CallGetValidOrigins

SpecRoa == InitRoa /\ [][NextRoa]_vars

---------------------------------------------------------------------------
(* Claims about the ROA validator, checked under SpecRoa *)

\* the packed address a roa_cidr text stands for (inet_pton of its groups)
roa_cidr_network(roa_cidr) ==
    IF roa_cidr.family = "AF_INET6"
    THEN [i \in 1..16 |-> roa_cidr.network[(i + 1) \div 2][2 - (i % 2)]]
    ELSE [i \in 1..4 |-> roa_cidr.network[i][1]]

\* entry E authorizes the announcement of `cidr` by `asn`
Authorizes(E, cidr, asn) ==
    /\ BlobLE(E.network, unpack_cidr(cidr)[1])
    /\ BlobLE(unpack_cidr(cidr)[3], E.broadcast_address)
    /\ E.asn = asn
    /\ E.max_length >= cidr.length

\* C1: check_roa(P, A) returns a non-empty result exactly when some stored ROA
\* entry E has E.network <= P.network, E.broadcast >= P.broadcast, E.asn = A and
\* E.max_length >= length(P); every returned row is such an entry.
C1_CheckRoaIff ==
    op.name = "check_roa" =>
        LET P == op.args[1]
            A == op.args[2]
        IN  /\ (ret # <<>>) <=> (\E E \in db.ROAEntries : Authorizes(E, P, A))
            /\ \A i \in 1..Len(ret) :
                  \E E \in db.ROAEntries :
                      /\ Authorizes(E, P, A)
                      /\ ret[i] = [network |-> E.network, length |-> E.length,
                                   max_length |-> E.max_length, asn |-> E.asn]

\* 10.0.0.0/24 announced by AS300 is authorized by the entry 10.0.0.0/23 with
\* max-length 24 while the store also holds entries that do not authorize it
C1_Witness ==
    /\ op.name = "check_roa"
    /\ op.args = <<CIDR(Net10, 24), 300>>
    /\ ret # <<>>
    /\ \E E \in db.ROAEntries : E.length = 23 /\ Authorizes(E, op.args[1], 300)
    /\ \E E \in db.ROAEntries : ~Authorizes(E, op.args[1], 300)

\* C2: A is a key of get_valid_origins(P) exactly when check_roa(P, A) is
\* non-empty, and the set under A holds one (roa_cidr, max_length) for each
\* entry of A that covers P with max_length >= length(P), and nothing else;
\* roa_cidr is the text of that entry's network and length.
C2_ValidOriginsAgree ==
    op.name = "get_valid_origins" =>
        LET P == op.args[1]
        IN  \A A \in RoaQueryAsns \cup {E.asn : E \in db.ROAEntries} \cup DOMAIN ret :
               /\ (A \in DOMAIN ret) <=> (<<>> \notin check_roa(db, P, A))
               /\ A \in DOMAIN ret =>
                    /\ \A E \in db.ROAEntries :
                          Authorizes(E, P, A) =>
                             \E x \in ret[A] :
                                /\ roa_cidr_network(x[1]) = E.network
                                /\ x[1].length = E.length
                                /\ x[2] = E.max_length
                    /\ \A x \in ret[A] :
                          \E E \in db.ROAEntries :
                             /\ Authorizes(E, P, A)
                             /\ roa_cidr_network(x[1]) = E.network
                             /\ x[1].length = E.length
                             /\ x[2] = E.max_length
                             /\ x[1].family =
                                  (IF Len(E.network) = 16 THEN "AF_INET6" ELSE "AF_INET")

\* valid origins of 10.0.0.0/24 with two authorized ASNs, one of them through two
\* entries, and an entry of the store that does not cover the prefix
C2_Witness ==
    /\ op.name = "get_valid_origins"
    /\ op.args = <<CIDR(Net10, 24)>>
    /\ {300, 400} \subseteq DOMAIN ret
    /\ Cardinality(ret[300]) >= 2
    /\ \E E \in db.ROAEntries : E.asn \notin DOMAIN ret

---------------------------------------------------------------------------
(* Route dumps: mrt2sql.parse_mrt *)

\* One token of an announcement's AS path text: a plain integer, an AS-SET
\* "{N,...}" (the regex \{(\d+) finds N), or a text neither int() nor the
\* regex accepts
Hop(n) == [kind |-> "int", asn |-> n]

AsSet(n) == [kind |-> "as_set", asn |-> n]

Junk == [kind |-> "other", asn |-> 0]

\* the parser that takes every token for an ASN
as_path_parts_lenient(as_path_raw) ==
    [ok |-> TRUE,
     as_path |-> [i \in 1..Len(as_path_raw) |-> as_path_raw[i].asn]]

\* lines 52-69: the ASNs of the path, or ok = FALSE when a token is unsupported
as_path_parts(as_path_raw) ==
    [ok |-> \A i \in 1..Len(as_path_raw) : as_path_raw[i].kind \in {"int", "as_set"},
     as_path |-> [i \in 1..Len(as_path_raw) |-> as_path_raw[i].asn]]

\* path_id = hash(as_path) is CPython's hash of a tuple of ints, computed in
\* 64-bit unsigned words.  A word is kept as its 8 bytes, least significant
\* first; uhash(n) is the word of a number below 2^31 (the hash of such an
\* int is the int itself).
uhash(n) == [i \in 1..8 |-> IF i <= 4 THEN (n \div (256 ^ (i - 1))) % 256 ELSE 0]

_PyHASH_XXPRIME_1 == <<135, 202, 235, 133, 177, 121, 55, 158>>

_PyHASH_XXPRIME_2 == <<79, 235, 212, 39, 61, 174, 178, 194>>

_PyHASH_XXPRIME_5 == <<197, 103, 86, 22, 47, 235, 212, 39>>

\* a + b modulo 2^64, from byte i on with the carry of the bytes below
RECURSIVE uhash_add(_, _, _, _)
uhash_add(a, b, i, carry) ==
    IF i > 8 THEN <<>>
    ELSE LET t == a[i] + b[i] + carry
         IN  <<t % 256>> \o uhash_add(a, b, i + 1, t \div 256)

\* the products a[i] * b[j] that fall into byte k, from i on
RECURSIVE uhash_column(_, _, _, _)
uhash_column(a, b, k, i) ==
    IF i > k THEN 0 ELSE a[i] * b[k + 1 - i] + uhash_column(a, b, k, i + 1)

\* a * b modulo 2^64, from byte k on with the carry of the bytes below
RECURSIVE uhash_mul(_, _, _, _)
uhash_mul(a, b, k, carry) ==
    IF k > 8 THEN <<>>
    ELSE LET t == uhash_column(a, b, k, 1) + carry
         IN  <<t % 256>> \o uhash_mul(a, b, k + 1, t \div 256)

\* _PyHASH_XXROTATE: (x << 31) | (x >> 33), a rotation by four bytes to the
\* left and then by one bit to the right
uhash_rotate(x) ==
    LET y == [i \in 1..8 |-> x[((i + 3) % 8) + 1]]
    IN  [i \in 1..8 |-> (y[i] \div 2) + 128 * (y[(i % 8) + 1] % 2)]

\* x ^ y of two numbers
RECURSIVE bit_xor(_, _)
bit_xor(x, y) ==
    IF x = 0 THEN y
    ELSE IF y = 0 THEN x
    ELSE ((x + y) % 2) + 2 * bit_xor(x \div 2, y \div 2)

\* tuplehash: the loop over the items from position i on, then the length is
\* mixed in; the result -1 is replaced by 1546275796
RECURSIVE tuplehash(_, _, _)
tuplehash(v, i, acc) ==
    IF i > Len(v)
    THEN LET mix == [j \in 1..8 |->
                        bit_xor(uhash(Len(v))[j],
                                bit_xor(_PyHASH_XXPRIME_5[j], uhash(3527539)[j]))]
             out == uhash_add(acc, mix, 1, 0)
         IN  IF out = [j \in 1..8 |-> 255] THEN uhash(1546275796) ELSE out
    ELSE LET lane == uhash(v[i])
             acc1 == uhash_add(acc, uhash_mul(lane, _PyHASH_XXPRIME_2, 1, 0), 1, 0)
             acc2 == uhash_rotate(acc1)
             acc3 == uhash_mul(acc2, _PyHASH_XXPRIME_1, 1, 0)
         IN  \* a byte is never negative, so the test always holds; it makes
             \* the turn's word be computed before the next turn starts
             IF acc3[1] >= 0 THEN tuplehash(v, i + 1, acc3) ELSE acc3

\* path_id = hash(as_path): the 64-bit hash, whose bytes SQLite stores as a
\* signed INTEGER
hash(as_path) == tuplehash(as_path, 1, _PyHASH_XXPRIME_5)

\* dn42regparse.get_as_name: the as-name field of data/aut-num/AS<asn>, or ''
get_as_name(registry_path, asn) ==
    IF asn \in DOMAIN registry_path.aut_num THEN registry_path.aut_num[asn] ELSE ""

\* as_names.get(asn, '')
as_names_get(names, asn) == IF asn \in DOMAIN names THEN names[asn] ELSE ""

\* "if registry_path and asn not in as_names: as_names[asn] = get_as_name(...)"
as_names_learn(names, registry_path, asn) ==
    IF registry_path.given /\ asn \notin DOMAIN names
    THEN [a \in DOMAIN names \cup {asn} |->
            IF a = asn THEN get_as_name(registry_path, asn) ELSE names[a]]
    ELSE names

\* the turn without lines 95-96: a repeated hop is stored as an adjacency too
parse_mrt_hop_self_loops(d, names, as_path, path_id, i) ==
    LET asn == as_path[i]
        d1 == [d EXCEPT
                 !.ASNs = INSERT_OR_IGNORE(@, dbinit_sql.ASNs,
                             [asn |-> asn, direct_feed |-> 0,
                              name |-> as_names_get(names, asn)]),
                 !.Paths = INSERT_OR_IGNORE(@, dbinit_sql.Paths,
                             [path_id |-> path_id, list_index |-> i - 1, asn |-> asn])]
        previous_asn == as_path[i - 1]
        d2 == [d1 EXCEPT
                 !.NeighbourASNs = INSERT_OR_IGNORE(@, dbinit_sql.NeighbourASNs,
                             [receiver_asn |-> previous_asn, sender_asn |-> asn,
                              transit |-> 0])]
        d3 == [d2 EXCEPT
                 !.NeighbourASNs =
                    {IF r.receiver_asn = previous_asn /\ r.sender_asn = asn
                     THEN [r EXCEPT !.transit = 1] ELSE r : r \in @}]
    IN  IF i = 1 THEN d1
        ELSE IF as_path[Len(as_path)] # asn THEN d3
        ELSE d2

\* the turn that marks every adjacency as transit, the origin's too
parse_mrt_hop_transit_always(d, names, as_path, path_id, i) ==
    LET asn == as_path[i]
        d1 == [d EXCEPT
                 !.ASNs = INSERT_OR_IGNORE(@, dbinit_sql.ASNs,
                             [asn |-> asn, direct_feed |-> 0,
                              name |-> as_names_get(names, asn)]),
                 !.Paths = INSERT_OR_IGNORE(@, dbinit_sql.Paths,
                             [path_id |-> path_id, list_index |-> i - 1, asn |-> asn])]
        previous_asn == as_path[i - 1]
        d2 == [d1 EXCEPT
                 !.NeighbourASNs = INSERT_OR_IGNORE(@, dbinit_sql.NeighbourASNs,
                             [receiver_asn |-> previous_asn, sender_asn |-> asn,
                              transit |-> 0])]
        d3 == [d2 EXCEPT
                 !.NeighbourASNs =
                    {IF r.receiver_asn = previous_asn /\ r.sender_asn = asn
                     THEN [r EXCEPT !.transit = 1] ELSE r : r \in @}]
    IN  IF i = 1 THEN d1
        ELSE IF previous_asn = asn THEN d1
        ELSE d3

\* the turn that writes the pair anew, with transit 0, when the hop is the
\* origin
parse_mrt_hop_origin_resets(d, names, as_path, path_id, i) ==
    LET asn == as_path[i]
        d1 == [d EXCEPT
                 !.ASNs = INSERT_OR_IGNORE(@, dbinit_sql.ASNs,
                             [asn |-> asn, direct_feed |-> 0,
                              name |-> as_names_get(names, asn)]),
                 !.Paths = INSERT_OR_IGNORE(@, dbinit_sql.Paths,
                             [path_id |-> path_id, list_index |-> i - 1, asn |-> asn])]
        previous_asn == as_path[i - 1]
        d2 == [d1 EXCEPT
                 !.NeighbourASNs = INSERT_OR_REPLACE(@, dbinit_sql.NeighbourASNs,
                             [receiver_asn |-> previous_asn, sender_asn |-> asn,
                              transit |-> 0])]
        d3 == [d2 EXCEPT
                 !.NeighbourASNs =
                    {IF r.receiver_asn = previous_asn /\ r.sender_asn = asn
                     THEN [r EXCEPT !.transit = 1] ELSE r : r \in @}]
    IN  IF i = 1 THEN d1
        ELSE IF previous_asn = asn THEN d1
        ELSE IF as_path[Len(as_path)] # asn THEN d3
        ELSE d2

\* lines 86-107: one turn of the loop over the hops, at 1-based position i
\* (list_index i - 1)
parse_mrt_hop(d, names, as_path, path_id, i) ==
    LET asn == as_path[i]
        d1 == [d EXCEPT
                 !.ASNs = INSERT_OR_IGNORE(@, dbinit_sql.ASNs,
                             [asn |-> asn, direct_feed |-> 0,
                              name |-> as_names_get(names, asn)]),
                 !.Paths = INSERT_OR_IGNORE(@, dbinit_sql.Paths,
                             [path_id |-> path_id, list_index |-> i - 1, asn |-> asn])]
        previous_asn == as_path[i - 1]
        d2 == [d1 EXCEPT
                 !.NeighbourASNs = INSERT_OR_IGNORE(@, dbinit_sql.NeighbourASNs,
                             [receiver_asn |-> previous_asn, sender_asn |-> asn,
                              transit |-> 0])]
        d3 == [d2 EXCEPT
                 !.NeighbourASNs =
                    {IF r.receiver_asn = previous_asn /\ r.sender_asn = asn
                     THEN [r EXCEPT !.transit = 1] ELSE r : r \in @}]
    IN  IF i = 1 THEN d1
        ELSE IF previous_asn = asn THEN d1
        ELSE IF as_path[Len(as_path)] # asn THEN d3
        ELSE d2

\* lines 83-107: the loop over the hops from position i on
RECURSIVE parse_mrt_hops(_, _, _, _, _, _)
parse_mrt_hops(d, names, registry_path, as_path, path_id, i) ==
    IF i > Len(as_path) THEN [db |-> d, as_names |-> names]
    ELSE LET names1 == as_names_learn(names, registry_path, as_path[i])
             turn == parse_mrt_hop(d, names1, as_path, path_id, i)
         IN  \* a turn leaves its row in Paths, so the test always holds; it
             \* makes the turn's store be computed before the next turn starts
             IF turn.Paths # {}
             THEN parse_mrt_hops(turn, names1, registry_path, as_path, path_id, i + 1)
             ELSE [db |-> turn, as_names |-> names1]

\* the announcement whose feed ASN is written before its name is looked up
parse_mrt_entry_feed_name_unread(d, names, registry_path, entry) ==
    LET parts == as_path_parts(entry.as_path)
        as_path == parts.as_path
        feed_asn == as_path[1]
        names1 == as_names_learn(names, registry_path, feed_asn)
        unpacked_cidr == unpack_cidr(entry.prefix)
        network_address_packed == unpacked_cidr[1]
        prefix_length == unpacked_cidr[2]
        path_id == hash(as_path)
        prefix_row == [network |-> network_address_packed, length |-> prefix_length,
                       broadcast_address |-> unpacked_cidr[3]]
        d1 == [d EXCEPT
                 !.ASNs = INSERT_OR_REPLACE(@, dbinit_sql.ASNs,
                             [asn |-> feed_asn, direct_feed |-> 1,
                              name |-> as_names_get(names, feed_asn)]),
                 !.Prefixes =
                    IF conflicts(BagToSet(@), dbinit_sql.Prefixes, prefix_row) # {}
                    THEN @ ELSE @ (+) SetToBag({prefix_row})]
        looped == parse_mrt_hops(d1, names1, registry_path, as_path, path_id, 1)
        d2 == [looped.db EXCEPT
                 !.PrefixPaths = INSERT_OR_IGNORE(@, dbinit_sql.PrefixPaths,
                             [prefix_network |-> network_address_packed,
                              prefix_length |-> prefix_length, path_id |-> path_id]),
                 !.Announcements = INSERT_OR_IGNORE(@, dbinit_sql.Announcements,
                             [asn |-> as_path[Len(as_path)],
                              prefix_network |-> network_address_packed,
                              prefix_length |-> prefix_length])]
    IN  IF ~parts.ok THEN [db |-> d, as_names |-> names]
        ELSE [db |-> d2, as_names |-> looped.as_names]

\* lines 50-115: one announcement of the dump; gives the store and as_names
\* after it
parse_mrt_entry(d, names, registry_path, entry) ==
    LET parts == as_path_parts(entry.as_path)
        as_path == parts.as_path
        feed_asn == as_path[1]
        names1 == as_names_learn(names, registry_path, feed_asn)
        unpacked_cidr == unpack_cidr(entry.prefix)
        network_address_packed == unpacked_cidr[1]
        prefix_length == unpacked_cidr[2]
        path_id == hash(as_path)
        prefix_row == [network |-> network_address_packed, length |-> prefix_length,
                       broadcast_address |-> unpacked_cidr[3]]
        d1 == [d EXCEPT
                 !.ASNs = INSERT_OR_REPLACE(@, dbinit_sql.ASNs,
                             [asn |-> feed_asn, direct_feed |-> 1,
                              name |-> as_names_get(names1, feed_asn)]),
                 !.Prefixes =
                    IF conflicts(BagToSet(@), dbinit_sql.Prefixes, prefix_row) # {}
                    THEN @ ELSE @ (+) SetToBag({prefix_row})]
        looped == parse_mrt_hops(d1, names1, registry_path, as_path, path_id, 1)
        d2 == [looped.db EXCEPT
                 !.PrefixPaths = INSERT_OR_IGNORE(@, dbinit_sql.PrefixPaths,
                             [prefix_network |-> network_address_packed,
                              prefix_length |-> prefix_length, path_id |-> path_id]),
                 !.Announcements = INSERT_OR_IGNORE(@, dbinit_sql.Announcements,
                             [asn |-> as_path[Len(as_path)],
                              prefix_network |-> network_address_packed,
                              prefix_length |-> prefix_length])]
    IN  IF ~parts.ok THEN [db |-> d, as_names |-> names]
        ELSE [db |-> d2, as_names |-> looped.as_names]

---------------------------------------------------------------------------
(* Prefix resolution: routegraphs.get_most_specific_prefix *)

ValueError == [exc |-> "ValueError"]

\* lines 37-40: fetchone() of the rows in the order fetched, and
\* ipaddress.ip_network of the row: ValueError for no row ("No route found")
\* and for a row whose network has host bits set
fetchone_network(matching_prefixes) ==
    IF matching_prefixes = <<>> THEN ValueError
    ELSE IF has_host_bits(matching_prefixes[1].network, matching_prefixes[1].length)
    THEN ValueError
    ELSE [exc |-> "", network_address |-> matching_prefixes[1].network,
          prefixlen |-> matching_prefixes[1].length]

\* get_most_specific_prefix without the "length(network) == ?" condition
get_most_specific_prefix_any_family(d, prefix_or_ip) ==
    LET ipn == ip_network(prefix_or_ip)
        ip == ipn.network_address
        matching_orders ==
            OrderByLengthDesc({r \in BagToSet(d.Prefixes) :
                                 /\ BlobLE(r.network, ip)
                                 /\ BlobLE(ip, r.broadcast_address)})
    IN  IF is_single_address(ipn)
        THEN {fetchone_network(matching_prefixes) :
                 matching_prefixes \in matching_orders}
        ELSE IF \E r \in BagToSet(d.Prefixes) : r.network = ipn.network_address
                                      /\ r.length = ipn.prefixlen
             THEN {[exc |-> "", network_address |-> ipn.network_address,
                    prefixlen |-> ipn.prefixlen]}
             ELSE {ValueError}

\* get_most_specific_prefix that answers every text with the longest match of
\* its network address
get_most_specific_prefix_always_match(d, prefix_or_ip) ==
    LET ipn == ip_network(prefix_or_ip)
        ip == ipn.network_address
        datalength == IF Len(ip) = 16 THEN 16 ELSE 4
        matching_orders ==
            OrderByLengthDesc({r \in BagToSet(d.Prefixes) :
                                 /\ BlobLE(r.network, ip)
                                 /\ BlobLE(ip, r.broadcast_address)
                                 /\ Len(r.network) = datalength})
    IN  {fetchone_network(matching_prefixes) :
            matching_prefixes \in matching_orders}

\* get_most_specific_prefix: the outcomes the call may have, each the
\* resolved network or ValueError.  A text that denotes a single address
\* (bare, or written with the full length) is looked up by longest match
\* within its family, and the first row fetched is taken: one outcome for
\* each stored prefix that may come first.  Any other CIDR must be stored.
get_most_specific_prefix(d, prefix_or_ip) ==
    LET ipn == ip_network(prefix_or_ip)
        ip == ipn.network_address
        datalength == IF Len(ip) = 16 THEN 16 ELSE 4
        matching_orders ==
            OrderByLengthDesc({r \in BagToSet(d.Prefixes) :
                                 /\ BlobLE(r.network, ip)
                                 /\ BlobLE(ip, r.broadcast_address)
                                 /\ Len(r.network) = datalength})
    IN  IF is_single_address(ipn)
        THEN {fetchone_network(matching_prefixes) :
                 matching_prefixes \in matching_orders}
        ELSE IF \E r \in BagToSet(d.Prefixes) : r.network = ipn.network_address
                                      /\ r.length = ipn.prefixlen
             THEN {[exc |-> "", network_address |-> ipn.network_address,
                    prefixlen |-> ipn.prefixlen]}
             ELSE {ValueError}

---------------------------------------------------------------------------
(* Path resolution: routegraphs.asn_paths_to_prefix, dn42 algorithm *)

_MAX_SEEN_ASNS == 50

\* float('inf'): above the length of every path
float_inf == 1000000

\* every order in which fetchall() may give the rows of a query without
\* ORDER BY
Orders(rows) == {s \in [1..Cardinality(rows) -> rows] : Range(s) = rows}

\* get_path: the hops of a path by list_index; with start_asn = <<a>> and a on
\* the path, from the first a on; start_asn = <<>> is None
get_path(d, path_id, start_asn) ==
    LET rows == {r \in d.Paths : r.path_id = path_id}
        path == [i \in 1..Cardinality(rows) |->
                    (CHOOSE r \in rows :
                        Cardinality({q \in rows : q.list_index < r.list_index}) = i - 1).asn]
    IN  IF start_asn # <<>> /\ start_asn[1] \in Range(path)
        THEN LET index == CHOOSE i \in 1..Len(path) :
                             /\ path[i] = start_asn[1]
                             /\ \A j \in 1..(i - 1) : path[j] # start_asn[1]
             IN  SubSeq(path, index, Len(path))
        ELSE path

\* lines 102-106: the rows of Paths JOIN PrefixPaths with the ASN and the
\* prefix, one per occurrence of the ASN on a path of the prefix
collector_paths(d, prefix, asn) ==
    {<<p.path_id, p.list_index>> :
        p \in {p \in d.Paths :
                 /\ p.asn = asn
                 /\ \E pp \in d.PrefixPaths :
                       /\ pp.path_id = p.path_id
                       /\ pp.prefix_network = prefix.network_address
                       /\ pp.prefix_length = prefix.prefixlen}}

\* candidate_paths[key] of the defaultdict(set), kept as <<key, path>> pairs
candidates_at(candidate_paths, key) ==
    {e[2] : e \in {e \in candidate_paths : e[1] = key}}

\* the loop of lines 110-114 that keeps every path, whatever its length
RECURSIVE collect_all(_, _, _, _, _, _)
collect_all(d, asn, rows, i, minlen, candidate_paths) ==
    IF i > Len(rows) THEN [minlen |-> minlen, candidate_paths |-> candidate_paths]
    ELSE LET path == get_path(d, rows[i][1], <<asn>>)
         IN  collect_all(d, asn, rows, i + 1, Len(path),
                         candidate_paths \cup {<<Len(path), path>>})

\* lines 110-114: the loop over the fetched rows from position i on
RECURSIVE collect(_, _, _, _, _, _)
collect(d, asn, rows, i, minlen, candidate_paths) ==
    IF i > Len(rows) THEN [minlen |-> minlen, candidate_paths |-> candidate_paths]
    ELSE LET path == get_path(d, rows[i][1], <<asn>>)
         IN  collect(d, asn, rows, i + 1, Min(minlen, Len(path)),
                     IF Len(path) <= minlen
                     THEN candidate_paths \cup {<<Len(path), path>>}
                     ELSE candidate_paths)

\* lines 122-125: the receivers of the ASN's announcements
possible_transits(d, asn) ==
    {r.receiver_asn : r \in {r \in d.NeighbourASNs : r.sender_asn = asn}}

\* a call of asn_paths_to_prefix(dbconn, prefix, asn, algo, seen_asns) at its
\* start; `at` is its position: "exact", "known", "guess", "loop", "exhausted"
Frame(prefix, asn, seen_asns) ==
    [prefix |-> prefix, asn |-> asn, seen_asns |-> seen_asns, at |-> "exact",
     minlen |-> float_inf, candidate_paths |-> {}, guessed_upstreams |-> {},
     possible_transits |-> <<>>, next_seen_asns |-> {}, next |-> 1]

\* line 234: PathsToPrefixResult(prefix, candidate_paths[minlen], guessed_upstreams)
Result(f) ==
    [prefix |-> f.prefix, paths |-> candidates_at(f.candidate_paths, f.minlen),
     guessed_upstreams |-> f.guessed_upstreams]

\* the call has reached its return statement
Returning(f) ==
    \/ f.at \in {"known", "exhausted"}
    \/ f.at = "loop" /\ f.next > Len(f.possible_transits)

\* the branch after the exact phase that guesses although paths are known
after_exact_always_guess(minlen) == "guess"

\* lines 115-117: with known paths the call returns them, else it guesses
after_exact(minlen) == IF minlen # float_inf THEN "known" ELSE "guess"

\* the cap test that looks at the number of transits, not of seen ASNs
may_expand_by_transits(seen_asns, transits) == Len(transits) <= _MAX_SEEN_ASNS

\* line 132: the search goes on while no more than the cap have been seen
may_expand(seen_asns, transits) == Cardinality(seen_asns) <= _MAX_SEEN_ASNS

\* the merge that takes the first upstream's paths and no shorter ones
merge_recur_first(f, recur_result) ==
    LET paths == {<<f.asn>> \o path : path \in recur_result.paths}
        recur_path_len == Len(CHOOSE path \in paths : TRUE)
    IN  IF paths = {} \/ f.minlen # float_inf THEN [f EXCEPT !.next = @ + 1]
        ELSE [f EXCEPT
                !.candidate_paths = @ \cup {<<recur_path_len, path>> : path \in paths},
                !.minlen = recur_path_len,
                !.guessed_upstreams = @ \cup recur_result.guessed_upstreams,
                !.next = @ + 1]

\* lines 137-144: the caller takes the result of the recursive call for
\* possible_transits[next] and moves on
merge_recur(f, recur_result) ==
    LET paths == {<<f.asn>> \o path : path \in recur_result.paths}
        recur_path_len == Len(CHOOSE path \in paths : TRUE)
    IN  IF paths = {} THEN [f EXCEPT !.next = @ + 1]
        ELSE [f EXCEPT
                !.candidate_paths =
                    IF recur_path_len <= f.minlen
                    THEN @ \cup {<<recur_path_len, path>> : path \in paths}
                    ELSE @,
                !.minlen = Min(@, recur_path_len),
                !.guessed_upstreams = @ \cup recur_result.guessed_upstreams,
                !.next = @ + 1]

\* the test of line 134 that lets every upstream through
already_seen_never(upstream, seen_asns) == FALSE

\* line 134: "if upstream not in seen_asns" guards the recursive call
already_seen(upstream, seen_asns) == upstream \in seen_asns

\* line 236: algo is AdjacencyAlgorithm.dn42 unless the caller names one
algo == IF Len(op.args) >= 3 THEN op.args[3] ELSE "dn42"

Top == stack[Len(stack)]

SetTop(f) == [stack EXCEPT ![Len(stack)] = f]

---------------------------------------------------------------------------
(* Inputs of the route-dump runs *)

P24 == CIDR(Net10, 24)

Q24 == CIDR(<<10, 0, 1, 0>>, 24)

P23 == CIDR(Net10, 23)

V6Default == CIDR(Pad(<<>>, 16), 0)

\* the announcements a dump may hold
MrtEntries ==
    { [as_path |-> <<Hop(1), Hop(2), Hop(5)>>, prefix |-> P24],
      [as_path |-> <<Hop(1), Hop(3), Hop(5)>>, prefix |-> P24],
      [as_path |-> <<Hop(1), Hop(2), Hop(2), Hop(4), Hop(5)>>, prefix |-> P24],
      [as_path |-> <<Hop(2), Hop(6)>>, prefix |-> Q24],
      [as_path |-> <<Hop(1), Hop(6)>>, prefix |-> Q24],
      [as_path |-> <<Hop(6), Hop(7)>>, prefix |-> P23],
      [as_path |-> <<Hop(7), Hop(6)>>, prefix |-> Q24],
      [as_path |-> <<Hop(1), Hop(2), AsSet(5)>>, prefix |-> P23],
      [as_path |-> <<Hop(1), Junk>>, prefix |-> Q24],
      [as_path |-> <<Hop(3), Hop(5)>>, prefix |-> V6Default] }

\* the texts get_most_specific_prefix is called with
LookupTexts ==
    { IP(<<10, 0, 0, 1>>), IP(<<10, 0, 1, 1>>), IP(<<10, 0, 2, 1>>),
      IP(Pad(<<>>, 15) \o <<1>>),
      P24, P23, Q24, CIDR(Net10, 25), CIDR(<<10, 0, 0, 5>>, 24),
      CIDR(<<10, 0, 0, 1>>, 32), CIDR(<<10, 0, 2, 1>>, 32), CIDR(Net10, 32),
      CIDR(Pad(<<>>, 15) \o <<1>>, 128), CIDR(Pad(<<>>, 16), 0),
      CIDR(Pad(<<10>>, 15), 8) }

\* the targets and the source ASNs asns_paths_to_prefix is called with
ResolveTexts == {P24, Q24, IP(<<10, 0, 0, 1>>), IP(<<10, 0, 2, 1>>)}

SourceLists ==
    { <<1>>, <<2>>, <<5>>, <<6>>, <<7>>, <<9>>, <<6, 1>>, <<7, 5>>,
      <<101>>, <<102>>, <<103>>, <<104>> }

---------------------------------------------------------------------------
(* The route-dump run: main() without a registry, and readers of the store *)

Init ==
    /\ db = db_init
    /\ pc = "parse_mrt"
    /\ op = NoCall
    /\ ret = <<>>
    /\ as_names = <<>>
    /\ stack = <<>>
    /\ summary = <<>>
    /\ disk = db_init
    /\ argv = [registry_path |-> NoRegistry, mrt_filenames |-> 1]
    /\ records = <<>>
    /\ dot = <<>>

\* parse_mrt: one turn of its loop over the dump's announcements
ParseMrtEntry ==
    /\ pc = "parse_mrt"
    /\ \E entry \in MrtEntries :
          LET after == parse_mrt_entry(db, as_names, NoRegistry, entry)
          IN  /\ db' = after.db
              /\ as_names' = after.as_names
    /\ UNCHANGED <<pc, op, ret, stack, summary, disk, argv, records, dot>>

\* parse_mrt: the dump is exhausted, dbconn.commit()
ParseMrtCommit ==
    /\ pc = "parse_mrt"
    /\ pc' = "serving"
    /\ disk' = db
    /\ UNCHANGED <<db, op, ret, as_names, stack, summary, argv, records, dot>>

CallGetMostSpecificPrefix ==
    /\ pc = "serving"
    /\ \E prefix_or_ip \in LookupTexts :
          /\ op' = [name |-> "get_most_specific_prefix", args |-> <<prefix_or_ip>>]
          /\ ret' \in get_most_specific_prefix(db, prefix_or_ip)
    /\ pc' = "done"
    /\ UNCHANGED <<db, as_names, stack, summary, disk, argv, records, dot>>

\* asns_paths_to_prefix is called: summary = PathsToPrefixResult('')
CallAsnsPathsToPrefix ==
    /\ pc = "serving"
    /\ \E prefix \in ResolveTexts, source_asns \in SourceLists :
          /\ op' = [name |-> "asns_paths_to_prefix", args |-> <<prefix, source_asns>>]
          /\ summary' = [source_asns |-> source_asns, i |-> 1, prefix |-> "",
                         paths |-> {}, guessed_upstreams |-> {}]
    /\ pc' = "resolving"
    /\ ret' = <<>>
    /\ UNCHANGED <<db, as_names, stack, disk, argv, records, dot>>

\* line 239 and lines 99-101: the call for the next source ASN resolves the
\* prefix text; a ValueError ends asns_paths_to_prefix
CallAsnPathsToPrefix ==
    /\ pc = "resolving"
    /\ stack = <<>>
    /\ \E prefix \in get_most_specific_prefix(db, op.args[1]) :
           \/ /\ prefix = ValueError
              /\ ret' = ValueError
              /\ pc' = "done"
              /\ summary' = <<>>
              /\ UNCHANGED stack
           \/ /\ prefix # ValueError
              /\ stack' = <<Frame(prefix, summary.source_asns[summary.i], {})>>
              /\ UNCHANGED <<pc, ret, summary>>
    /\ UNCHANGED <<db, op, as_names, disk, argv, records, dot>>

\* lines 102-117: the exact phase, over the rows in the order they are fetched
ExactPhase ==
    /\ pc = "resolving"
    /\ stack # <<>>
    /\ Top.at = "exact"
    /\ \E rows \in Orders(collector_paths(db, Top.prefix, Top.asn)) :
          \E got \in {collect(db, Top.asn, rows, 1, float_inf, {})} :
              stack' = SetTop([Top EXCEPT !.minlen = got.minlen,
                                          !.candidate_paths = got.candidate_paths,
                                          !.at = after_exact(got.minlen)])
    /\ UNCHANGED <<db, pc, op, ret, as_names, summary, disk, argv, records, dot>>

\* lines 122-132: the adjacency lookup of the fallback
GuessTransits ==
    /\ pc = "resolving"
    /\ stack # <<>>
    /\ Top.at = "guess"
    /\ algo = "dn42"
    /\ \E transits \in Orders(possible_transits(db, Top.asn)) :
          stack' = SetTop([Top EXCEPT
                             !.possible_transits = transits,
                             !.guessed_upstreams = @ \cup {Top.asn},
                             !.next_seen_asns =
                                Top.seen_asns \cup Range(transits) \cup {Top.asn},
                             !.at = IF may_expand(Top.seen_asns, transits)
                                    THEN "loop" ELSE "exhausted"])
    /\ UNCHANGED <<db, pc, op, ret, as_names, summary, disk, argv, records, dot>>

\* lines 133-134: an upstream that has been seen is passed over
SkipSeen ==
    /\ pc = "resolving"
    /\ stack # <<>>
    /\ Top.at = "loop"
    /\ Top.next <= Len(Top.possible_transits)
    /\ already_seen(Top.possible_transits[Top.next], Top.seen_asns)
    /\ stack' = SetTop([Top EXCEPT !.next = @ + 1])
    /\ UNCHANGED <<db, pc, op, ret, as_names, summary, disk, argv, records, dot>>

\* lines 134-136: the recursive call for an upstream not seen before
Recurse ==
    /\ pc = "resolving"
    /\ stack # <<>>
    /\ Top.at = "loop"
    /\ Top.next <= Len(Top.possible_transits)
    /\ ~already_seen(Top.possible_transits[Top.next], Top.seen_asns)
    /\ stack' = Append(stack, Frame(Top.prefix, Top.possible_transits[Top.next],
                                    Top.next_seen_asns))
    /\ UNCHANGED <<db, pc, op, ret, as_names, summary, disk, argv, records, dot>>

\* line 234, then lines 137-144 in the caller
ReturnToCaller ==
    /\ pc = "resolving"
    /\ Len(stack) > 1
    /\ Returning(Top)
    /\ stack' = [SubSeq(stack, 1, Len(stack) - 1) EXCEPT
                    ![Len(stack) - 1] = merge_recur(@, Result(Top))]
    /\ UNCHANGED <<db, pc, op, ret, as_names, summary, disk, argv, records, dot>>

\* line 234, then lines 240-243: the result of a source ASN joins the summary,
\* which is returned after the last source
ReturnToSummary ==
    /\ pc = "resolving"
    /\ Len(stack) = 1
    /\ Returning(Top)
    /\ stack' = <<>>
    /\ LET result == Result(Top)
           merged == [summary EXCEPT
                        !.prefix = result.prefix,
                        !.paths = @ \cup result.paths,
                        !.guessed_upstreams = @ \cup result.guessed_upstreams,
                        !.i = @ + 1]
       IN  IF merged.i <= Len(summary.source_asns)
           THEN /\ summary' = merged
                /\ UNCHANGED <<pc, ret>>
           ELSE /\ summary' = <<>>
                /\ pc' = "done"
                /\ ret' = [exc |-> "", prefix |-> merged.prefix, paths |-> merged.paths,
                           guessed_upstreams |-> merged.guessed_upstreams]
    /\ UNCHANGED <<db, op, as_names, disk, argv, records, dot>>

Next ==
    \/ ParseMrtEntry
    \/ ParseMrtCommit
    \/ CallGetMostSpecificPrefix
    \/ CallAsnsPathsToPrefix
    \/ CallAsnPathsToPrefix
    \/ ExactPhase
    \/ GuessTransits
    \/ SkipSeen
    \/ Recurse
    \/ ReturnToCaller
    \/ ReturnToSummary

Spec == Init /\ [][Next]_vars

---------------------------------------------------------------------------
(* Readers of a finished store: routegraphs opens the file mrt2sql has left *)

RECURSIVE parse_mrt(_, _, _)
\* parse_mrt without a registry: the loop over the dump, from its i-th entry on
parse_mrt(d, entries, i) ==
    IF i > Len(entries) THEN d
    ELSE parse_mrt(parse_mrt_entry(d, <<>>, NoRegistry, entries[i]).db, entries, i + 1)

\* dumps in which AS6 and AS7 receive routes from each other
CyclicDumps ==
    { << [as_path |-> <<Hop(1), Hop(2), Hop(5)>>, prefix |-> P24],
         [as_path |-> <<Hop(2), Hop(6)>>, prefix |-> Q24],
         [as_path |-> <<Hop(6), Hop(7)>>, prefix |-> P23],
         [as_path |-> <<Hop(7), Hop(6)>>, prefix |-> Q24] >>,
      << [as_path |-> <<Hop(1), Hop(2), Hop(5)>>, prefix |-> P24],
         [as_path |-> <<Hop(1), Hop(3), Hop(5)>>, prefix |-> P24],
         [as_path |-> <<Hop(2), Hop(6)>>, prefix |-> Q24],
         [as_path |-> <<Hop(1), Hop(6)>>, prefix |-> Q24],
         [as_path |-> <<Hop(6), Hop(7)>>, prefix |-> P23],
         [as_path |-> <<Hop(7), Hop(6)>>, prefix |-> Q24],
         [as_path |-> <<Hop(6), Hop(1)>>, prefix |-> P23] >> }

InitCyclic ==
    /\ db \in {parse_mrt(db_init, dump, 1) : dump \in CyclicDumps}
    /\ pc = "serving"
    /\ op = NoCall
    /\ ret = <<>>
    /\ as_names = <<>>
    /\ stack = <<>>
    /\ summary = <<>>
    /\ disk = db
    /\ argv = [registry_path |-> NoRegistry, mrt_filenames |-> 1]
    /\ records = <<>>
    /\ dot = <<>>

\* the steps of a running asns_paths_to_prefix call
ResolverStep ==
    \/ CallAsnPathsToPrefix
    \/ ExactPhase
    \/ GuessTransits
    \/ SkipSeen
    \/ Recurse
    \/ ReturnToCaller
    \/ ReturnToSummary

NextResolver ==
    \/ CallAsnsPathsToPrefix
    \/ ResolverStep

\* a running call is not suspended for ever: its next step is taken
FairSpec == InitCyclic /\ [][NextResolver]_vars /\ WF_vars(ResolverStep)

\* the length of the chain of adjacencies, longer than _MAX_SEEN_ASNS
ChainLen == 53

\* the k-th ASN of the chain
ChainAsn(k) == 100 + k

\* a dump whose one long path makes every ChainAsn(k + 1) a receiver of
\* ChainAsn(k); the last ASN of the chain announces 10.0.0.0/24 itself, and
\* the first one also receives from the second
ChainDump ==
    << [as_path |-> [i \in 1..ChainLen |-> Hop(ChainAsn(ChainLen + 1 - i))],
        prefix |-> Q24],
       [as_path |-> <<Hop(ChainAsn(ChainLen))>>, prefix |-> P24],
       [as_path |-> <<Hop(ChainAsn(1)), Hop(ChainAsn(2))>>, prefix |-> Q24] >>

InitChain ==
    /\ db = parse_mrt(db_init, ChainDump, 1)
    /\ pc = "serving"
    /\ op = NoCall
    /\ ret = <<>>
    /\ as_names = <<>>
    /\ stack = <<>>
    /\ summary = <<>>
    /\ disk = db
    /\ argv = [registry_path |-> NoRegistry, mrt_filenames |-> 1]
    /\ records = <<>>
    /\ dot = <<>>

SpecChain == InitChain /\ [][NextResolver]_vars

---------------------------------------------------------------------------
(* Path resolution: routegraphs.asn_paths_to_prefix, clearnet algorithm    *)

\* lines 53-71: the tier-1 networks
TIER1_ASNS ==
    {6762, 12956, 2914, 3356, 6453, 701, 6461, 3257, 1299, 3491, 7018, 3320,
     5511, 6830, 7922, 174, 6939}

\* the origin associations that the queries read under the name
\* PrefixOriginASNs: the rows parse_mrt writes to Announcements
PrefixOriginASNs(d) == d.Announcements

\* lines 153-156: the origin ASNs of the prefix
origin_ases(d, prefix) ==
    {r.asn : r \in {r \in PrefixOriginASNs(d) :
                       /\ r.prefix_network = prefix.network_address
                       /\ r.prefix_length = prefix.prefixlen}}

\* lines 171-173 and 215-217: the hops of a path with list_index from low to
\* high, by list_index
path_fragment(d, path_id, low, high) ==
    LET rows == {r \in d.Paths : /\ r.path_id = path_id
                                 /\ r.list_index >= low
                                 /\ r.list_index <= high}
    IN  [i \in 1..Cardinality(rows) |->
            (CHOOSE r \in rows :
                Cardinality({q \in rows : q.list_index < r.list_index}) = i - 1).asn]

\* tuple(reversed list)
reverse(s) == [i \in 1..Len(s) |-> s[Len(s) + 1 - i]]

\* lines 164-174: the fragments of stored paths from a tier-1 ASN to a later
\* origin ASN of the prefix
t1_paths_to_origin(d, origins) ==
    {path_fragment(d, ab[1].path_id, ab[1].list_index, ab[2].list_index) :
        ab \in {ab \in d.Paths \X d.Paths :
                  /\ ab[1].path_id = ab[2].path_id
                  /\ ab[1].asn \in TIER1_ASNS
                  /\ ab[2].asn \in origins
                  /\ ab[2].list_index > ab[1].list_index}}

RECURSIVE _get_shortest_sublists(_, _, _)
\* lines 80-90: the least length of the sublists still to visit and of those
\* visited, and the sublists of that length
_get_shortest_sublists(lst, minlen, result) ==
    IF lst = {} THEN [minlen |-> minlen, result |-> result]
    ELSE LET sublst == CHOOSE sublst \in lst : TRUE
             rest == lst \ {sublst}
         IN  IF Len(sublst) < minlen
             THEN _get_shortest_sublists(rest, Len(sublst), {sublst})
             ELSE IF Len(sublst) = minlen
             THEN _get_shortest_sublists(rest, minlen, result \cup {sublst})
             ELSE _get_shortest_sublists(rest, minlen, result)

\* lines 177-190: shortest_t1_to_origin.get(t1, set()): the shortest of the
\* fragments that start at t1
shortest_t1_to_origin(fragments, t1) ==
    _get_shortest_sublists({f \in fragments : f[1] = t1}, float_inf, {}).result

\* lines 205-220: the fragments of stored paths between the source ASN and a
\* tier-1 ASN, each turned to start at the source
source_paths_to_t1s(d, asn) ==
    {LET low == Min(ab[1].list_index, ab[2].list_index)
         high == Max(ab[1].list_index, ab[2].list_index)
         fragment == path_fragment(d, ab[1].path_id, low, high)
     IN  IF fragment[1] # asn THEN reverse(fragment) ELSE fragment :
        ab \in {ab \in d.Paths \X d.Paths :
                  /\ ab[1].path_id = ab[2].path_id
                  /\ ab[1].asn \in TIER1_ASNS
                  /\ ab[2].asn = asn}}

\* line 230: source_path_to_t1 + t1_path_to_origin
join(source_path_to_t1, t1_path_to_origin) ==
    source_path_to_t1 \o t1_path_to_origin

\* min(map(len, paths)) of a non-empty set of paths
min_len(paths) ==
    CHOOSE n \in {Len(p) : p \in paths} : \A p \in paths : n <= Len(p)

\* lines 149-230: the clearnet branch for the frame f, which the exact phase
\* has left without a known path: the frame at its return statement, or the
\* ValueError the branch raises
clearnet(d, f) ==
    LET fragments == t1_paths_to_origin(d, origin_ases(d, f.prefix))
        asn_to_origin == shortest_t1_to_origin(fragments, f.asn)
        shortest == _get_shortest_sublists(source_paths_to_t1s(d, f.asn), float_inf, {})
        minlen == IF shortest.minlen = float_inf THEN float_inf
                  ELSE shortest.minlen + min_len(fragments) - 1
        next_len == Len(CHOOSE path \in asn_to_origin : TRUE)
    IN  IF f.asn \in TIER1_ASNS
        THEN IF asn_to_origin # {}
             THEN [f EXCEPT
                     !.minlen = next_len,
                     !.candidate_paths =
                         @ \cup {<<next_len, path>> : path \in asn_to_origin},
                     !.at = "known"]
             ELSE [f EXCEPT !.at = "known"]
        \* line 226: min() of no fragments raises ValueError
        ELSE IF fragments = {} THEN ValueError
        ELSE [f EXCEPT
                !.guessed_upstreams = @ \cup {f.asn},
                !.minlen = minlen,
                !.candidate_paths =
                    @ \cup {<<minlen, join(s, t)>> :
                        <<s, t>> \in
                            {st \in shortest.result \X fragments :
                                st[2] \in shortest_t1_to_origin(fragments,
                                                                st[1][Len(st[1])])}},
                !.at = "known"]

\* the stores the clearnet queries are made on: AS174 and AS701 are tier-1
ClearnetDumps ==
    { << [as_path |-> <<Hop(6), Hop(174)>>, prefix |-> Q24],
         [as_path |-> <<Hop(174), Hop(2), Hop(5)>>, prefix |-> P24] >>,
      << [as_path |-> <<Hop(174), Hop(6)>>, prefix |-> Q24],
         [as_path |-> <<Hop(9), Hop(174), Hop(5)>>, prefix |-> P24],
         [as_path |-> <<Hop(6), Hop(7), Hop(701)>>, prefix |-> Q24],
         [as_path |-> <<Hop(701), Hop(5)>>, prefix |-> P24] >>,
      << [as_path |-> <<Hop(6), Hop(174)>>, prefix |-> Q24],
         [as_path |-> <<Hop(1), Hop(2), Hop(5)>>, prefix |-> P24] >>,
      << [as_path |-> <<Hop(6), Hop(7)>>, prefix |-> Q24],
         [as_path |-> <<Hop(174), Hop(2), Hop(5)>>, prefix |-> P24] >>,
      << [as_path |-> <<Hop(6), Hop(7)>>, prefix |-> Q24],
         [as_path |-> <<Hop(1), Hop(2), Hop(5)>>, prefix |-> P24] >> }

\* the source ASNs of the clearnet queries
ClearnetSourceLists ==
    { <<6>>, <<7>>, <<2>>, <<174>>, <<701>>, <<3>>, <<6, 174>>, <<2, 6>> }

InitClearnet ==
    /\ db \in {parse_mrt(db_init, dump, 1) : dump \in ClearnetDumps}
    /\ pc = "serving"
    /\ op = NoCall
    /\ ret = <<>>
    /\ as_names = <<>>
    /\ stack = <<>>
    /\ summary = <<>>
    /\ disk = db
    /\ argv = [registry_path |-> NoRegistry, mrt_filenames |-> 1]
    /\ records = <<>>
    /\ dot = <<>>

\* asns_paths_to_prefix is called with algo=AdjacencyAlgorithm.clearnet
CallAsnsPathsToPrefixClearnet ==
    /\ pc = "serving"
    /\ \E prefix \in ResolveTexts, source_asns \in ClearnetSourceLists :
          /\ op' = [name |-> "asns_paths_to_prefix",
                    args |-> <<prefix, source_asns, "clearnet">>]
          /\ summary' = [source_asns |-> source_asns, i |-> 1, prefix |-> "",
                         paths |-> {}, guessed_upstreams |-> {}]
    /\ pc' = "resolving"
    /\ ret' = <<>>
    /\ UNCHANGED <<db, as_names, stack, disk, argv, records, dot>>

\* lines 149-230: the clearnet branch of the call on top of the stack; its
\* ValueError ends asns_paths_to_prefix
Clearnet ==
    /\ pc = "resolving"
    /\ stack # <<>>
    /\ Top.at = "guess"
    /\ algo = "clearnet"
    /\ \E after \in {clearnet(db, Top)} :
          \/ /\ after = ValueError
             /\ ret' = ValueError
             /\ pc' = "done"
             /\ stack' = <<>>
             /\ summary' = <<>>
          \/ /\ after # ValueError
             /\ stack' = SetTop(after)
             /\ UNCHANGED <<pc, ret, summary>>
    /\ UNCHANGED <<db, op, as_names, disk, argv, records, dot>>

NextClearnet ==
    \/ CallAsnsPathsToPrefixClearnet
    \/ CallAsnPathsToPrefix
    \/ ExactPhase
    \/ Clearnet
    \/ ReturnToSummary

SpecClearnet == InitClearnet /\ [][NextClearnet]_vars

---------------------------------------------------------------------------
(* Readers of a store in which two AS paths have the same path_id          *)

\* dumps with the AS paths 9971969 1755844985 and 1092424367 1, whose
\* hash() is the same, and the dumps of CyclicDumps; in the last dump AS7 has
\* no path of its own to 10.0.1.0/24 and AS9971969 has received from it
CollidingDumps ==
    CyclicDumps \cup
    { << [as_path |-> <<Hop(9971969), Hop(1755844985)>>, prefix |-> P24],
         [as_path |-> <<Hop(1092424367), Hop(1)>>, prefix |-> Q24],
         [as_path |-> <<Hop(2), Hop(6)>>, prefix |-> Q24] >>,
      << [as_path |-> <<Hop(1092424367), Hop(1)>>, prefix |-> Q24],
         [as_path |-> <<Hop(9971969), Hop(1755844985)>>, prefix |-> P24],
         [as_path |-> <<Hop(6), Hop(9971969)>>, prefix |-> P23] >>,
      << [as_path |-> <<Hop(9971969), Hop(1755844985)>>, prefix |-> P24],
         [as_path |-> <<Hop(1092424367), Hop(1)>>, prefix |-> Q24],
         [as_path |-> <<Hop(9971969), Hop(7)>>, prefix |-> P23] >> }

\* the source ASNs of the queries on these stores
CollidingSourceLists ==
    { <<9971969>>, <<1092424367>>, <<6>>, <<1>>, <<7>>, <<6, 1>>, <<7, 5>>,
      <<1, 9971969>> }

InitColliding ==
    /\ db \in {parse_mrt(db_init, dump, 1) : dump \in CollidingDumps}
    /\ pc = "serving"
    /\ op = NoCall
    /\ ret = <<>>
    /\ as_names = <<>>
    /\ stack = <<>>
    /\ summary = <<>>
    /\ disk = db
    /\ argv = [registry_path |-> NoRegistry, mrt_filenames |-> 1]
    /\ records = <<>>
    /\ dot = <<>>

\* asns_paths_to_prefix is called with the default algorithm
CallAsnsPathsToPrefixColliding ==
    /\ pc = "serving"
    /\ \E prefix \in ResolveTexts, source_asns \in CollidingSourceLists :
          /\ op' = [name |-> "asns_paths_to_prefix", args |-> <<prefix, source_asns>>]
          /\ summary' = [source_asns |-> source_asns, i |-> 1, prefix |-> "",
                         paths |-> {}, guessed_upstreams |-> {}]
    /\ pc' = "resolving"
    /\ ret' = <<>>
    /\ UNCHANGED <<db, as_names, stack, disk, argv, records, dot>>

NextColliding ==
    \/ CallAsnsPathsToPrefixColliding
    \/ ResolverStep

SpecColliding == InitColliding /\ [][NextColliding]_vars

---------------------------------------------------------------------------
(* The ingestion run: mrt2sql.main without a registry over one dump file,  *)
(* or with a registry over two                                             *)

\* a registry with two aut-num objects and two route objects
Registry ==
    [given |-> TRUE,
     aut_num |-> [asn \in {1, 2} |-> IF asn = 1 THEN "ALPHA-AS" ELSE "BETA-AS"],
     route |-> { [cidr |-> P24, origin |-> <<5>>, max_length |-> <<>>],
                 [cidr |-> Q24, origin |-> <<2, 6>>, max_length |-> <<24>>] }]

\* the announcements the decoder may yield
IngestEntries ==
    { [as_path |-> <<Hop(1), Hop(2), Hop(5)>>, prefix |-> P24],
      [as_path |-> <<Hop(1), Hop(2)>>, prefix |-> Q24],
      [as_path |-> <<Hop(2), Hop(6)>>, prefix |-> Q24],
      [as_path |-> <<Hop(1), Hop(2), Hop(2), Hop(5), Hop(5)>>, prefix |-> P24],
      [as_path |-> <<Hop(1), Junk>>, prefix |-> Q24],
      [as_path |-> <<Hop(1), Hop(2), AsSet(5)>>, prefix |-> P23],
      [as_path |-> <<Hop(9971969), Hop(1755844985)>>, prefix |-> P24],
      [as_path |-> <<Hop(1092424367), Hop(1)>>, prefix |-> Q24] }

\* the number of announcements a run reads, over all its dump files
MaxRecords == 3

\* parse_roa: the loop over the files of data/route and data/route6
RECURSIVE parse_roa(_, _)
parse_roa(d, roa_files) ==
    IF roa_files = {} THEN d
    ELSE LET roa_file == CHOOSE f \in roa_files : TRUE
         IN  parse_roa(parse_roa_file(d, roa_file), roa_files \ {roa_file})

\* the announcements yielded so far, over all dump files, in order
RECURSIVE yielded(_, _)
yielded(dumps, k) ==
    IF k > Len(dumps) THEN <<>> ELSE dumps[k] \o yielded(dumps, k + 1)

\* parse_mrt: the loop over the announcements of one dump from the i-th on;
\* gives the store and as_names after it
RECURSIVE parse_mrt_dump(_, _, _, _, _)
parse_mrt_dump(d, names, registry_path, entries, i) ==
    IF i > Len(entries) THEN [db |-> d, as_names |-> names]
    ELSE LET after == parse_mrt_entry(d, names, registry_path, entries[i])
         IN  parse_mrt_dump(after.db, after.as_names, registry_path, entries, i + 1)

\* main: the loop over the dump files from the k-th on, each parse_mrt call
\* starting with as_names = {}
RECURSIVE main_dumps(_, _, _, _)
main_dumps(d, registry_path, dumps, k) ==
    LET after == parse_mrt_dump(d, <<>>, registry_path, dumps[k], 1)
    IN  IF k >= Len(dumps) THEN after.db
        ELSE main_dumps(after.db, registry_path, dumps, k + 1)

\* main: the store after db_init, parse_roa when a registry is given, and
\* parse_mrt over the dumps
main(registry_path, dumps) ==
    main_dumps(IF registry_path.given THEN parse_roa(db_init, registry_path.route)
               ELSE db_init,
               registry_path, dumps, 1)

InitMain ==
    /\ db = db_init
    /\ disk = db_init
    /\ argv \in {[registry_path |-> NoRegistry, mrt_filenames |-> 1],
                 [registry_path |-> Registry, mrt_filenames |-> 2]}
    /\ pc = IF argv.registry_path.given THEN "parse_roa" ELSE "parse_mrt"
    /\ op = NoCall
    /\ ret = <<>>
    /\ as_names = <<>>
    /\ stack = <<>>
    /\ summary = <<>>
    /\ records = << <<>> >>
    /\ dot = <<>>

\* main: parse_roa(db, args.registry_path), which does not commit; parse_mrt
\* then opens the first dump file
MainParseRoa ==
    /\ pc = "parse_roa"
    /\ db' = parse_roa(db, argv.registry_path.route)
    /\ pc' = "parse_mrt"
    /\ UNCHANGED <<op, ret, as_names, stack, summary, disk, argv, records, dot>>

\* parse_mrt: one turn of its loop over the announcements of the open dump
MainParseMrtEntry ==
    /\ pc = "parse_mrt"
    /\ Len(yielded(records, 1)) < MaxRecords
    /\ \E entry \in IngestEntries :
          \E after \in {parse_mrt_entry(db, as_names, argv.registry_path, entry)} :
              /\ db' = after.db
              /\ as_names' = after.as_names
              /\ records' = [records EXCEPT ![Len(records)] = Append(@, entry)]
    /\ UNCHANGED <<pc, op, ret, stack, summary, disk, argv, dot>>

\* parse_mrt: the dump is exhausted, dbconn.commit(); main goes on to the next
\* dump file, for which parse_mrt starts with as_names = {}, or returns
MainParseMrtCommit ==
    /\ pc = "parse_mrt"
    /\ disk' = db
    /\ IF Len(records) < argv.mrt_filenames
       THEN /\ records' = Append(records, <<>>)
            /\ as_names' = <<>>
            /\ UNCHANGED pc
       ELSE /\ pc' = "exit"
            /\ UNCHANGED <<records, as_names>>
    /\ UNCHANGED <<db, op, ret, stack, summary, argv, dot>>

\* the registry or the open dump cannot be read: the exception leaves main,
\* and the connection is closed with its uncommitted rows rolled back
MainRaises ==
    /\ pc \in {"parse_roa", "parse_mrt"}
    /\ pc' = "raised"
    /\ db' = disk
    /\ UNCHANGED <<op, ret, as_names, stack, summary, disk, argv, records, dot>>

NextMain ==
    \/ MainParseRoa
    \/ MainParseMrtEntry
    \/ MainParseMrtCommit
    \/ MainRaises

SpecMain == InitMain /\ [][NextMain]_vars

---------------------------------------------------------------------------
(* The graph: routegraphs.main draws the result of asns_paths_to_prefix    *)

\* f'AS{asn}': the name of the node of an ASN
AS(asn) == <<"AS", asn>>

\* the named node of the destination prefix
dest_prefix == <<"dest_prefix">>

\* a statement of the graph's body: dot.node(name, label=, color=) has no n2,
\* dot.edge(n1, n2, style=, color=) no label; "" and <<>> are attributes
\* that were not given
Statement(n1, n2, label, style, color) ==
    [n1 |-> n1, n2 |-> n2, label |-> label, style |-> style, color |-> color]

\* the attributes that draw every edge of a path that starts at a guessed
\* ASN dashed
attrs_by_source(path, idx, guessed_upstreams) ==
    IF path[1] \in guessed_upstreams
    THEN [style |-> "dashed", color |-> "grey"]
    ELSE [style |-> "", color |-> ""]

\* lines 283-285: the edge from path[idx - 1] is dashed and grey when that
\* ASN is a guessed upstream, and has no attributes otherwise
attrs(path, idx, guessed_upstreams) ==
    IF path[idx - 1] \in guessed_upstreams
    THEN [style |-> "dashed", color |-> "grey"]
    ELSE [style |-> "", color |-> ""]

\* the _add_edge that does not look at seen_edges
_add_edge_unseen(g, n1, n2, kwargs) ==
    [body |-> Append(g.body, Statement(n1, n2, <<>>, kwargs.style, kwargs.color)),
     seen_edges |-> g.seen_edges \cup {<<n1, n2>>}]

\* lines 268-271: an edge is added once, with the attributes of its first call
_add_edge(g, n1, n2, kwargs) ==
    IF <<n1, n2>> \in g.seen_edges THEN g
    ELSE [body |-> Append(g.body, Statement(n1, n2, <<>>, kwargs.style, kwargs.color)),
          seen_edges |-> g.seen_edges \cup {<<n1, n2>>}]

RECURSIVE graph_path(_, _, _, _)
\* lines 280-290: the loop over the hops of a path from its idx-th on
\* (1-based), then the edge from the last hop to the prefix
graph_path(g, path, idx, guessed_upstreams) ==
    IF idx > Len(path) THEN _add_edge(g, AS(path[Len(path)]), dest_prefix,
                                      [style |-> "", color |-> ""])
    ELSE IF idx = 1 THEN graph_path(g, path, 2, guessed_upstreams)
    ELSE LET previous_asn == path[idx - 1]
             current_asn == path[idx]
         IN  IF previous_asn \notin guessed_upstreams /\ previous_asn = current_asn
             THEN graph_path(g, path, idx + 1, guessed_upstreams)
             ELSE graph_path(_add_edge(g, AS(previous_asn), AS(current_asn),
                                       attrs(path, idx, guessed_upstreams)),
                             path, idx + 1, guessed_upstreams)

RECURSIVE graph_paths(_, _, _, _)
\* line 277: the loop over result.paths, in the order the set is iterated
graph_paths(g, paths, k, guessed_upstreams) ==
    IF k > Len(paths) THEN g
    ELSE graph_paths(graph_path(g, paths[k], 1, guessed_upstreams),
                     paths, k + 1, guessed_upstreams)

\* graph(source_asns, result): the body of the Digraph, with result.paths
\* iterated in the order `paths`
graph(source_asns, result, paths) ==
    LET nodes == <<Statement(dest_prefix, <<>>, <<result.prefix>>, "", "green")>> \o
                 [i \in 1..Len(source_asns) |->
                     Statement(AS(source_asns[i]), <<>>, <<>>, "", "blue")]
    IN  graph_paths([body |-> nodes, seen_edges |-> {}], paths, 1,
                    result.guessed_upstreams).body

\* routegraphs.main, lines 306-310: the result of asns_paths_to_prefix is
\* drawn and saved; a ValueError has ended main before
Graph ==
    /\ pc = "done"
    /\ op.name = "asns_paths_to_prefix"
    /\ ret # ValueError
    /\ \E paths \in Orders(ret.paths) : dot' = graph(op.args[2], ret, paths)
    /\ pc' = "saved"
    /\ UNCHANGED <<db, op, ret, as_names, stack, summary, disk, argv, records>>

NextGraph ==
    \/ NextResolver
    \/ Graph

SpecGraph == InitCyclic /\ [][NextGraph]_vars

---------------------------------------------------------------------------
(* Claims about ingestion, checked under SpecMain *)

\* an announcement whose AS path text holds a token that is neither an
\* integer nor an AS-SET with a leading number
Unsupported(entry) ==
    \E i \in 1..Len(entry.as_path) : entry.as_path[i].kind = "other"

\* the hop sequence that the AS path text of an announcement stands for
Hops(entry) == [i \in 1..Len(entry.as_path) |-> entry.as_path[i].asn]

\* the AS paths the run has ingested so far
IngestedPaths ==
    {Hops(e) : e \in {e \in Range(yielded(records, 1)) : ~Unsupported(e)}}

\* the run is reading its dumps or has read them all: db is the run's store
Ingesting == pc \in {"parse_mrt", "exit"}

\* X is immediately followed by Y on the path, X # Y, and Y is not the
\* path's origin (its final hop)
RelaysTo(p, X, Y) ==
    \E i \in 1..(Len(p) - 1) :
        /\ p[i] = X
        /\ p[i + 1] = Y
        /\ X # Y
        /\ Y # p[Len(p)]

\* C11: after any sequence of ingested records, a stored adjacency (X, Y) has
\* transit true if and only if some ingested path holds X immediately
\* followed by Y (X # Y) where Y is not that path's origin; a pair that only
\* ever appears with Y as the origin has transit false.
C11_TransitIffRelayed ==
    Ingesting =>
        \A r \in db.NeighbourASNs :
            /\ r.transit \in {0, 1}
            /\ r.transit = 1 <=>
                  \E p \in IngestedPaths : RelaysTo(p, r.receiver_asn, r.sender_asn)

\* both cases in one store: (1, 2) was seen with 2 relaying and with 2 as the
\* origin and is transit; (2, 5) was only seen with 5 as the origin, once
\* ahead of a prepended copy of it, and is not
C11_Witness ==
    /\ Ingesting
    /\ <<1, 2, 5>> \in IngestedPaths
    /\ <<1, 2>> \in IngestedPaths
    /\ <<1, 2, 2, 5, 5>> \in IngestedPaths
    /\ [receiver_asn |-> 1, sender_asn |-> 2, transit |-> 1] \in db.NeighbourASNs
    /\ [receiver_asn |-> 2, sender_asn |-> 5, transit |-> 0] \in db.NeighbourASNs

---------------------------------------------------------------------------
(* Claims about prefix resolution, checked under Spec *)

\* the stored prefixes of address a's family whose range holds a: the first
\* `length` bits of a are the prefix's network
Containing(d, a) ==
    {r \in BagToSet(d.Prefixes) :
        /\ Len(r.network) = Len(a)
        /\ ip_network(CIDR(a, r.length)).network_address = r.network}

\* the answer of a longest-match lookup of address a: not found when nothing
\* contains a, else a containing prefix of greatest length
IsLongestMatch(d, a, answer) ==
    /\ (answer = ValueError) <=> (Containing(d, a) = {})
    /\ answer # ValueError =>
          \E r \in Containing(d, a) :
             /\ answer.network_address = r.network
             /\ answer.prefixlen = r.length
             /\ BlobLE(r.network, a) /\ BlobLE(a, r.broadcast_address)
             /\ \A q \in Containing(d, a) : q.length <= r.length

\* C9: on a bare address a, get_most_specific_prefix returns a stored prefix of
\* a's family that contains a and has the greatest length among those; it never
\* returns a prefix of the other family or one that does not contain a, and it
\* raises the not-found error exactly when no stored prefix of the family
\* contains a.
C9_BareAddressLongestMatch ==
    (op.name = "get_most_specific_prefix" /\ ~op.args[1].slash) =>
        IsLongestMatch(db, op.args[1].address, ret)

\* 10.0.0.1 resolves to 10.0.0.0/24 while 10.0.0.0/23 and ::/0 are stored too
C9_Witness ==
    /\ op.name = "get_most_specific_prefix"
    /\ op.args = <<IP(<<10, 0, 0, 1>>)>>
    /\ ret = [exc |-> "", network_address |-> Net10, prefixlen |-> 24]
    /\ \E r \in BagToSet(db.Prefixes) : r.network = Net10 /\ r.length = 23
    /\ \E r \in BagToSet(db.Prefixes) : Len(r.network) = 16

\* the answer to an explicit CIDR that must be stored verbatim
IsVerbatim(d, text, answer) ==
    LET ipn == ip_network(text)
    IN  IF \E r \in BagToSet(d.Prefixes) : r.network = ipn.network_address
                                 /\ r.length = ipn.prefixlen
        THEN answer = [exc |-> "", network_address |-> ipn.network_address,
                       prefixlen |-> ipn.prefixlen]
        ELSE answer = ValueError

\* C10 as claimed: on every explicit CIDR, a full-length /32 or /128 included,
\* get_most_specific_prefix returns that CIDR if it is stored and fails with the
\* not-found error otherwise.
C10_ExplicitCidrVerbatim ==
    (op.name = "get_most_specific_prefix" /\ op.args[1].slash) =>
        IsVerbatim(db, op.args[1], ret)

\* C10 (amended): an explicit CIDR shorter than the full address length is
\* returned (host bits masked) if it is stored and fails with the not-found
\* error otherwise; a full-length /32 or /128 is resolved like a bare address,
\* by longest match, so it may give a covering stored prefix.
C10_ExplicitCidrAmended ==
    (op.name = "get_most_specific_prefix" /\ op.args[1].slash) =>
        IF op.args[1].length < 8 * Len(op.args[1].address)
        THEN IsVerbatim(db, op.args[1], ret)
        ELSE IsLongestMatch(db, op.args[1].address, ret)

\* 10.0.0.0/25 is refused while the covering 10.0.0.0/24 is stored
C10_Witness ==
    /\ op.name = "get_most_specific_prefix"
    /\ op.args = <<CIDR(Net10, 25)>>
    /\ ret = ValueError
    /\ \E r \in BagToSet(db.Prefixes) : r.network = Net10 /\ r.length = 24

---------------------------------------------------------------------------
(* Claims about path resolution, checked under Spec *)

\* the AS paths the store holds for the prefix: the hops recorded under the
\* path_id of each of its PrefixPaths rows
AnnouncedPaths(d, prefix) ==
    {get_path(d, pp.path_id, <<>>) :
        pp \in {pp \in d.PrefixPaths :
                  /\ pp.prefix_network = prefix.network_address
                  /\ pp.prefix_length = prefix.prefixlen}}

\* a path from the first occurrence of S on
From(path, S) ==
    SubSeq(path, CHOOSE i \in 1..Len(path) :
                    path[i] = S /\ \A j \in 1..(i - 1) : path[j] # S,
           Len(path))

\* the observed paths of the prefix that hold S, cut to start at S
Observed(d, prefix, S) ==
    {From(path, S) : path \in {path \in AnnouncedPaths(d, prefix) : S \in Range(path)}}

\* the shortest of them
ShortestObserved(d, prefix, S) ==
    {p \in Observed(d, prefix, S) : \A q \in Observed(d, prefix, S) : Len(p) <= Len(q)}

ResolverDone == pc = "done" /\ op.name = "asns_paths_to_prefix" /\ ret # ValueError

\* C3: when some stored path of the resolved prefix holds the source S, the
\* call returns exactly the paths cut at S that have the least hop count - all
\* of them, of one length - in whatever order the rows were fetched; for a call
\* with the single source S that set is the final result.
C3_ExactShortestAllTies ==
    /\ \A i \in 1..Len(stack) :
          LET f == stack[i]
          IN  (f.at # "exact" /\ Observed(db, f.prefix, f.asn) # {}) =>
                 /\ Returning(f)
                 /\ Result(f).paths = ShortestObserved(db, f.prefix, f.asn)
                 /\ \A p, q \in Result(f).paths : Len(p) = Len(q)
    /\ (ResolverDone /\ Len(op.args[2]) = 1
          /\ Observed(db, ret.prefix, op.args[2][1]) # {}) =>
             ret.paths = ShortestObserved(db, ret.prefix, op.args[2][1])

\* AS1 reaches 10.0.0.0/24 over two tied paths of three hops; the longer
\* observed path 1 2 2 4 5 is left out
C3_Witness ==
    /\ ResolverDone
    /\ op.args = <<P24, <<1>>>>
    /\ ret.paths = {<<1, 2, 5>>, <<1, 3, 5>>}
    /\ <<1, 2, 2, 4, 5>> \in Observed(db, ret.prefix, 1)

\* C4: a call whose exact phase found a path makes no adjacency lookup and no
\* recursive call, adds nothing to the guessed set and returns observed paths
\* only; a call that guesses has no observed path.  In the final result no
\* ASN with an observed path is in the guessed set, and the paths starting at
\* such a source are observed ones.
C4_FallbackOnlyWithoutExact ==
    /\ \A i \in 1..Len(stack) :
          LET f == stack[i]
          IN  /\ (f.at # "exact" /\ Observed(db, f.prefix, f.asn) # {}) =>
                    /\ f.at = "known"
                    /\ i = Len(stack)
                    /\ f.possible_transits = <<>>
                    /\ f.next_seen_asns = {}
                    /\ f.guessed_upstreams = {}
                    /\ Result(f).paths \subseteq Observed(db, f.prefix, f.asn)
              /\ f.at \in {"guess", "loop", "exhausted"} =>
                    Observed(db, f.prefix, f.asn) = {}
              /\ \A a \in f.guessed_upstreams : Observed(db, f.prefix, a) = {}
    /\ ResolverDone =>
          /\ \A a \in ret.guessed_upstreams : Observed(db, ret.prefix, a) = {}
          /\ \A p \in ret.paths :
                Observed(db, ret.prefix, p[1]) # {} =>
                   p \in Observed(db, ret.prefix, p[1])

\* inside the guess for AS7, the recursive call for AS2 finds observed paths
\* and is about to return them
C4_Witness ==
    /\ Len(stack) >= 2
    /\ Top.at = "known"
    /\ Top.asn = 2
    /\ stack[1].asn = 7
    /\ stack[1].guessed_upstreams = {7}

\* the ASNs announcing the prefix
Origins(d, prefix) ==
    {a.asn : a \in {a \in d.Announcements :
                      /\ a.prefix_network = prefix.network_address
                      /\ a.prefix_length = prefix.prefixlen}}

\* adjacency read without direction
Adjacent(d, u) ==
    {r.sender_asn : r \in {r \in d.NeighbourASNs : r.receiver_asn = u}}
    \cup {r.receiver_asn : r \in {r \in d.NeighbourASNs : r.sender_asn = u}}

RECURSIVE Level(_, _, _)
\* the ASNs at k undirected hops from S
Level(d, S, k) ==
    IF k = 0 THEN {S}
    ELSE (UNION {Adjacent(d, u) : u \in Level(d, S, k - 1)})
            \ (UNION {Level(d, S, j) : j \in 0..(k - 1)})

RECURSIVE ShortestTo(_, _, _, _)
\* the shortest undirected paths from S to v, v at k hops from S
ShortestTo(d, S, v, k) ==
    IF k = 0 THEN {<<S>>}
    ELSE UNION {{Append(p, v) : p \in ShortestTo(d, S, u, k - 1)} :
                   u \in Adjacent(d, v) \cap Level(d, S, k - 1)}

\* all shortest paths from S to an origin of the prefix over the undirected
\* adjacency graph
ShortestUndirected(d, prefix, S) ==
    LET reach == {k \in 0..Cardinality(d.ASNs) :
                     Level(d, S, k) \cap Origins(d, prefix) # {}}
    IN  IF reach = {} THEN {}
        ELSE LET k == CHOOSE k \in reach : \A j \in reach : k <= j
             IN  UNION {ShortestTo(d, S, v, k) :
                           v \in Level(d, S, k) \cap Origins(d, prefix)}

\* C5 as stated: for a source without an observed path the result is the set
\* of all shortest paths from the source to an origin of the prefix over the
\* undirected adjacency graph, and the source is flagged as guessed.
C5_UndirectedShortestPaths ==
    (ResolverDone /\ Len(op.args[2]) = 1
       /\ Observed(db, ret.prefix, op.args[2][1]) = {}) =>
          /\ ret.paths = ShortestUndirected(db, ret.prefix, op.args[2][1])
          /\ op.args[2][1] \in ret.guessed_upstreams

\* p climbs from sender to receiver through ASNs without an observed path and
\* goes on with a shortest observed path of the first ASN that has one, as the
\* store gives it: the hops kept under the path_id of a path of the prefix
GuessedShape(d, prefix, p) ==
    \E k \in 2..Len(p) :
        /\ \A i \in 1..(k - 1) :
              /\ Observed(d, prefix, p[i]) = {}
              /\ \E r \in d.NeighbourASNs :
                    r.sender_asn = p[i] /\ r.receiver_asn = p[i + 1]
        /\ SubSeq(p, k, Len(p)) \in ShortestObserved(d, prefix, p[k])

\* C5 (amended): a call that guesses flags its ASN as guessed, and every path
\* it returns starts at that ASN, climbs the adjacency rows from sender to
\* receiver only - whatever their transit flag - through ASNs without an
\* observed path, and continues to its end with a shortest of the paths the
\* store keeps for the prefix and the first ASN that has one (the hops read
\* back under the path_id; when two AS paths share a path_id these are the
\* hops of the path ingested first, and their last ASN need not be an origin
\* of the prefix); the returned paths are tied in length and no longer than
\* the way over any receiver that has an observed path; an ASN nobody
\* received routes from gets no path.
C5_GuessedPathsClimbReceivers ==
    \A i \in 1..Len(stack) :
       LET f == stack[i]
       IN  (f.at \in {"loop", "exhausted"}) =>
              /\ f.asn \in f.guessed_upstreams
              /\ \A p \in Result(f).paths :
                    /\ p[1] = f.asn
                    /\ GuessedShape(db, f.prefix, p)
              /\ \A p, q \in Result(f).paths : Len(p) = Len(q)
              /\ possible_transits(db, f.asn) = {} => Result(f).paths = {}
              /\ (Returning(f) /\ f.at = "loop") =>
                    \A u \in possible_transits(db, f.asn) \ f.seen_asns :
                       \A q \in ShortestObserved(db, f.prefix, u) :
                          /\ Result(f).paths # {}
                          /\ \A p \in Result(f).paths : Len(p) <= Len(q) + 1

\* AS7 has no path to 10.0.1.0/24 and AS9971969 has received from it; the
\* path announced for 10.0.1.0/24, 1092424367 1, has the path_id of the path
\* 9971969 1755844985 ingested before it, so the guess climbs 7 -> 9971969
\* and goes on with the hops read back, which end at an ASN that is no origin
\* of 10.0.1.0/24
C5_Witness ==
    /\ ResolverDone
    /\ op.args = <<Q24, <<7>>>>
    /\ ret.paths = {<<7, 9971969, 1755844985>>}
    /\ 7 \in ret.guessed_upstreams
    /\ Origins(db, ret.prefix) = {1}


\* C6: the recursive guess terminates on every store, adjacency cycles
\* included: the calls nested at any moment are for distinct ASNs, so their
\* number never exceeds the number of known ASNs plus one, every started
\* resolution reaches its return, and for a prefix that resolves the return is
\* a result, never an error.
C6_FallbackTerminates ==
    /\ [](/\ Len(stack) <= Cardinality(db.ASNs) + 1
          /\ \A i, j \in 1..Len(stack) : stack[i].asn = stack[j].asn => i = j
          /\ (pc = "done" /\ op.name = "asns_paths_to_prefix"
                /\ ValueError \notin get_most_specific_prefix(db, op.args[1])) =>
                   (ret # ValueError /\ ret.exc = ""))
    /\ (pc = "resolving") ~> (pc = "done")

\* AS6 and AS7 receive routes from each other; the guess for AS7 came back
\* from the cycle with a path
C6_Witness ==
    /\ ResolverDone
    /\ op.args[2] = <<7>>
    /\ \E r \in db.NeighbourASNs : r.receiver_asn = 6 /\ r.sender_asn = 7
    /\ \E r \in db.NeighbourASNs : r.receiver_asn = 7 /\ r.sender_asn = 6
    /\ 6 \in ret.guessed_upstreams
    /\ ret.paths # {}

\* C7: every recursive call gets a seen-ASN set strictly larger than its
\* caller's; a call that received more than _MAX_SEEN_ASNS seen ASNs never
\* enters the loop over its upstreams, so it has no call nested in it; hence
\* no more than _MAX_SEEN_ASNS + 1 calls are ever nested, and a returned path
\* holds no more than _MAX_SEEN_ASNS guessed hops, however long the chain.
C7_ExplorationCap ==
    /\ \A i \in 1..(Len(stack) - 1) :
          /\ stack[i].next_seen_asns = stack[i + 1].seen_asns
          /\ stack[i].seen_asns \subseteq stack[i + 1].seen_asns
          /\ stack[i].seen_asns # stack[i + 1].seen_asns
    /\ \A i \in 1..Len(stack) :
          Cardinality(stack[i].seen_asns) > _MAX_SEEN_ASNS =>
             /\ i = Len(stack)
             /\ stack[i].at # "loop"
    /\ Len(stack) <= _MAX_SEEN_ASNS + 1
    /\ ResolverDone =>
          \A p \in ret.paths :
             Cardinality({i \in 1..Len(p) : Observed(db, ret.prefix, p[i]) = {}})
                <= _MAX_SEEN_ASNS

\* the guess for the first ASN of the chain stops at nesting depth
\* _MAX_SEEN_ASNS + 1 although that ASN has an upstream left
C7_Witness ==
    /\ Len(stack) = _MAX_SEEN_ASNS + 1
    /\ stack[1].asn = ChainAsn(1)
    /\ Top.at = "exhausted"
    /\ Cardinality(Top.seen_asns) > _MAX_SEEN_ASNS
    /\ possible_transits(db, Top.asn) # {}
    /\ ChainLen > _MAX_SEEN_ASNS


\* what resolving the text must give: an explicit CIDR below full length is
\* looked up verbatim, anything else by longest match
Resolves(d, text, answer) ==
    IF text.slash /\ text.length < 8 * Len(text.address)
    THEN IsVerbatim(d, text, answer)
    ELSE IsLongestMatch(d, text.address, answer)

\* S is in no adjacency row
NoAdjacency(d, S) ==
    \A r \in d.NeighbourASNs : r.receiver_asn # S /\ r.sender_asn # S

\* C8 as stated: a source in no stored path of the resolved prefix and in no
\* adjacency row gets a normal return with an empty path set and an empty
\* guessed set; a text that matches no stored prefix gets the not-found error.
C8_EmptyGuessedSet ==
    (pc = "done" /\ op.name = "asns_paths_to_prefix" /\ Len(op.args[2]) = 1) =>
       /\ (ret = ValueError) <=> Resolves(db, op.args[1], ValueError)
       /\ (ret # ValueError /\ NoAdjacency(db, op.args[2][1])
             /\ Observed(db, ret.prefix, op.args[2][1]) = {}) =>
                (ret.paths = {} /\ ret.guessed_upstreams = {})

\* C8 (amended): such a source gets a normal return with an empty path set and
\* a guessed set that holds the source itself; a text that matches no stored
\* prefix gets the not-found error, which no normal return equals.
C8_NoPathVersusNotFound ==
    (pc = "done" /\ op.name = "asns_paths_to_prefix" /\ Len(op.args[2]) = 1) =>
       /\ (ret = ValueError) <=> Resolves(db, op.args[1], ValueError)
       /\ ret # ValueError =>
             /\ ret.exc = ""
             /\ Resolves(db, op.args[1], ret.prefix)
       /\ (ret # ValueError /\ NoAdjacency(db, op.args[2][1])
             /\ Observed(db, ret.prefix, op.args[2][1]) = {}) =>
                (ret.paths = {} /\ ret.guessed_upstreams = {op.args[2][1]})

\* AS9 is unknown to the store: 10.0.0.0/24 resolves and the call returns
\* nothing but the flag on AS9
C8_Witness ==
    /\ pc = "done"
    /\ op.name = "asns_paths_to_prefix"
    /\ op.args = <<P24, <<9>>>>
    /\ ret = [exc |-> "", prefix |-> [exc |-> "", network_address |-> Net10,
                                      prefixlen |-> 24],
              paths |-> {}, guessed_upstreams |-> {9}]
    /\ db.NeighbourASNs # {}

\* C12: adjacency is monotone during ingestion: in every step that reads a
\* record or commits, a stored pair (receiver, sender) stays stored and a
\* transit flag that is true stays true, also when the later path has the
\* sender as its origin.
C12_AdjacencyMonotone ==
    [][(Ingesting /\ Ingesting') =>
          \A r \in db.NeighbourASNs :
              \E q \in db'.NeighbourASNs :
                  /\ q.receiver_asn = r.receiver_asn
                  /\ q.sender_asn = r.sender_asn
                  /\ r.transit = 1 => q.transit = 1]_vars

\* "1 2 5" made (1, 2) transit, then "1 2", where 2 is the origin, was read
C12_Witness ==
    /\ Ingesting
    /\ Len(yielded(records, 1)) >= 2
    /\ Hops(yielded(records, 1)[1]) = <<1, 2, 5>>
    /\ Hops(yielded(records, 1)[2]) = <<1, 2>>
    /\ [receiver_asn |-> 1, sender_asn |-> 2, transit |-> 1] \in db.NeighbourASNs

\* the announcement read by a step of the run, when the step reads one
ReadsRecord == Len(yielded(records', 1)) = Len(yielded(records, 1)) + 1

RecordRead == yielded(records', 1)[Len(yielded(records', 1))]

\* C13: ASN records are upserted monotonically: there is one row per ASN; in
\* every step that reads a record or commits, an ASN whose direct_feed is
\* true keeps it true (also when it appears as an ordinary hop) and an ASN
\* with a non-empty name keeps a non-empty name (also when the feed upsert
\* replaces its row); and the feed ASN of a record that is read has
\* direct_feed true afterwards.
C13_AsnUpsertMonotone ==
    [][(Ingesting /\ Ingesting') =>
          /\ \A q1, q2 \in db'.ASNs : q1.asn = q2.asn => q1 = q2
          /\ \A r \in db.ASNs :
                \E q \in db'.ASNs :
                    /\ q.asn = r.asn
                    /\ r.direct_feed = 1 => q.direct_feed = 1
                    /\ r.name # "" => q.name # ""
          /\ (ReadsRecord /\ ~Unsupported(RecordRead)) =>
                \E q \in db'.ASNs :
                    /\ q.asn = Hops(RecordRead)[1]
                    /\ q.direct_feed = 1]_vars

\* with a registry: AS2 was first stored as a hop of "1 2 5", with its name,
\* then seen as the feed of "2 6", then as a hop of "1 2"
C13_Witness ==
    /\ Ingesting
    /\ argv.registry_path.given
    /\ Len(yielded(records, 1)) = 3
    /\ Hops(yielded(records, 1)[1]) = <<1, 2, 5>>
    /\ Hops(yielded(records, 1)[2]) = <<2, 6>>
    /\ Hops(yielded(records, 1)[3]) = <<1, 2>>
    /\ [asn |-> 2, direct_feed |-> 1, name |-> "BETA-AS"] \in db.ASNs
    /\ [asn |-> 1, direct_feed |-> 1, name |-> "ALPHA-AS"] \in db.ASNs
    /\ [asn |-> 5, direct_feed |-> 0, name |-> ""] \in db.ASNs

\* the number of Prefixes rows of the CIDR that the text denotes
StoredRows(d, prefix) ==
    LET u == unpack_cidr(prefix)
        rows == {r \in BagToSet(d.Prefixes) : r.network = u[1] /\ r.length = u[2]}
    IN  IF rows = {} THEN 0
        ELSE CopiesIn(CHOOSE r \in rows : TRUE, d.Prefixes) + Cardinality(rows) - 1

\* C14: prefix insertion is idempotent: reading a record whose CIDR is already
\* stored leaves Prefixes as it is (no second row; network, length and
\* broadcast address of the stored row are not modified).
C14_PrefixInsertIdempotent ==
    [][(Ingesting /\ Ingesting' /\ ReadsRecord
        /\ StoredRows(db, RecordRead.prefix) > 0) =>
          db'.Prefixes = db.Prefixes]_vars

\* 10.0.0.0/24 was announced by two records with different paths and is
\* stored once, with the broadcast address 10.0.0.255
C14_Witness ==
    /\ Ingesting
    /\ Len(yielded(records, 1)) >= 2
    /\ yielded(records, 1)[1] # yielded(records, 1)[2]
    /\ yielded(records, 1)[1].prefix = P24
    /\ yielded(records, 1)[2].prefix = P24
    /\ ~Unsupported(yielded(records, 1)[1])
    /\ ~Unsupported(yielded(records, 1)[2])
    /\ StoredRows(db, P24) = 1
    /\ [network |-> Net10, length |-> 24, broadcast_address |-> <<10, 0, 0, 255>>]
          \in BagToSet(db.Prefixes)

\* the hops read back for the path: get_path(dbconn, hash(path)), no start ASN
ReadBack(d, p) == get_path(d, hash(p), <<>>)

\* C15: hop-order round trip: every ingested path reads back by its identifier
\* as the original hop sequence, repeated ASNs included; announcements with
\* the same hop sequence share one identifier and one stored record (one row
\* per hop); two different hop sequences never read back as the same one.
C15_HopOrderRoundTrip ==
    Ingesting =>
        /\ \A p \in IngestedPaths :
              /\ ReadBack(db, p) = p
              /\ Cardinality({r \in db.Paths : r.path_id = hash(p)}) = Len(p)
        /\ \A p1, p2 \in IngestedPaths :
              p1 # p2 => ReadBack(db, p1) # ReadBack(db, p2)

---------------------------------------------------------------------------
(* Claims about the ROA objects, checked under SpecRoa *)

\* the entries the claim expects of a ROA object with prefix length L: one per
\* listed origin ASN, with max_length the larger of L and M, where M is the
\* object's max-length field or else 29 (4-byte prefix) or 64 (16-byte prefix)
ExpectedRoaEntries(roa_file) ==
    LET L == roa_file.cidr.length
        M == IF roa_file.max_length # <<>> THEN roa_file.max_length[1]
             ELSE IF Len(roa_file.cidr.address) = 4 THEN 29 ELSE 64
        u == unpack_cidr(roa_file.cidr)
    IN  {[network |-> u[1], length |-> L, broadcast_address |-> u[3],
          asn |-> a, max_length |-> IF L >= M THEN L ELSE M]
         : a \in Range(roa_file.origin)}

\* C16: every step of parse_roa stores, for the ROA object it reads, exactly
\* the expected entries: max_length = max(L, M), one entry per origin ASN of
\* the object; so every stored entry has max_length >= length.
C16_RoaMaxLength ==
    [][(pc = "parse_roa" /\ pc' = "parse_roa") =>
          /\ \E roa_file \in RoaFiles :
                /\ db'.ROAEntries = db.ROAEntries \cup ExpectedRoaEntries(roa_file)
                /\ \A i \in 1..Len(roa_file.origin) :
                      Cardinality({E \in db'.ROAEntries :
                                     /\ E.network = roa_file.cidr.address
                                     /\ E.length = roa_file.cidr.length
                                     /\ E.asn = roa_file.origin[i]}) = 1
          /\ \A E \in db'.ROAEntries : E.max_length >= E.length]_vars

\* the store holds a defaulted IPv4 entry (29), a defaulted IPv6 entry (64),
\* a /30 without the field (30), a /24 whose field says 16 (24), a /23 whose
\* field says 24, and both origins of 10.0.0.0/24
C16_Witness ==
    /\ pc = "parse_roa"
    /\ \E E \in db.ROAEntries :
          E.network = Net10 /\ E.length = 24 /\ E.asn = 300 /\ E.max_length = 29
    /\ \E E \in db.ROAEntries :
          E.network = Net10 /\ E.length = 24 /\ E.asn = 400 /\ E.max_length = 29
    /\ \E E \in db.ROAEntries :
          Len(E.network) = 16 /\ E.length = 16 /\ E.max_length = 64
    /\ \E E \in db.ROAEntries : E.length = 30 /\ E.max_length = 30
    /\ \E E \in db.ROAEntries :
          E.network = <<10, 0, 2, 0>> /\ E.length = 24 /\ E.max_length = 24
    /\ \E E \in db.ROAEntries : E.length = 23 /\ E.max_length = 24

---------------------------------------------------------------------------
(* Claims about the run as a whole, checked under SpecMain *)

Supported(entry) == ~Unsupported(entry)

\* the dumps read so far with their unsupported announcements taken out
SupportedRecords == [k \in 1..Len(records) |-> SelectSeq(records[k], Supported)]

\* C17: a record with an unsupported AS path token is discarded as a whole: it
\* changes no table, and the records after it are ingested as if it had not
\* been in the input; so the store is at any time the one that the run
\* builds from the input without its unsupported records.
C17_UnsupportedRecordDiscarded ==
    (Ingesting /\ SupportedRecords # records) =>
        db = main(argv.registry_path, SupportedRecords)

\* an unsupported record was read first and supported ones after it
C17_Witness ==
    /\ Ingesting
    /\ Len(yielded(records, 1)) = 3
    /\ Unsupported(yielded(records, 1)[1])
    /\ Supported(yielded(records, 1)[2])
    /\ Supported(yielded(records, 1)[3])
    /\ SupportedRecords # records
    /\ Cardinality(db.PrefixPaths) = 2

\* C18: ingestion is all-or-nothing for readers: nothing of a run is
\* committed before the whole run has succeeded, so until main has returned,
\* and after a run that raised, a reader sees the store as db_init left it.
\* parse_mrt ends with dbconn.commit() (line 116), once per dump file: the
\* ROA rows and the first dump are committed while the second is still to
\* be read, and stay committed when reading it raises.
C18_AllOrNothing == pc # "exit" => disk = db_init

\* the pairs of distinct consecutive hops of the ingested paths
DistinctConsecutiveHops ==
    UNION {{<<p[i], p[i + 1]>> :
                i \in {i \in 1..(Len(p) - 1) : p[i] # p[i + 1]}} :
           p \in IngestedPaths}

\* the pairs of the stored adjacency relation
Adjacencies == {<<r.receiver_asn, r.sender_asn>> : r \in db.NeighbourASNs}

\* C20: after any sequence of records the adjacency relation holds no pair
\* (X, X), and holds exactly the pairs of distinct consecutive hops of the
\* ingested paths: a repeated hop adds nothing and does not keep the hop
\* after it from being stored.
C20_NoSelfAdjacency ==
    Ingesting =>
        /\ \A r \in db.NeighbourASNs : r.receiver_asn # r.sender_asn
        /\ Adjacencies = DistinctConsecutiveHops

\* the prepended path 1 2 2 5 5 was ingested alone: its adjacencies are
\* (1, 2) and (2, 5)
C20_Witness ==
    /\ Ingesting
    /\ IngestedPaths = {<<1, 2, 2, 5, 5>>}
    /\ Adjacencies = {<<1, 2>>, <<2, 5>>}

---------------------------------------------------------------------------
(* Claims about the graph, checked under SpecGraph *)

\* the edges drawn between two ASNs
AsEdges ==
    {dot[i] : i \in {i \in 1..Len(dot) : dot[i].n2 \notin {<<>>, dest_prefix}}}

\* the hop from a to b was observed: b follows a on a stored path of the
\* resolved prefix
ObservedHop(a, b) ==
    \E p \in AnnouncedPaths(db, ret.prefix) :
        \E i \in 1..(Len(p) - 1) : p[i] = a /\ p[i + 1] = b

\* the hop from a to b is guessed: no stored path of the resolved prefix
\* holds a, and b has received routes from a
GuessedHop(a, b) ==
    /\ \A p \in AnnouncedPaths(db, ret.prefix) : a \notin Range(p)
    /\ b \in possible_transits(db, a)

\* C19: in the graph of a resolution result every hop of a result path is
\* drawn once; an edge is solid exactly when its hop was observed on a
\* stored path of the prefix and dashed exactly when it is a guessed hop, so
\* an observed hop that a guessing source's path runs over is solid too.
C19_SolidObservedDashedGuessed ==
    pc = "saved" =>
        /\ \A p \in ret.paths : \A i \in 1..(Len(p) - 1) :
              p[i] # p[i + 1] =>
                  Cardinality({e \in AsEdges :
                                 e.n1 = AS(p[i]) /\ e.n2 = AS(p[i + 1])}) = 1
        /\ \A e \in AsEdges :
              /\ e.style \in {"", "dashed"}
              /\ e.style = "" <=> ObservedHop(e.n1[2], e.n2[2])
              /\ e.style = "dashed" <=> GuessedHop(e.n1[2], e.n2[2])

\* sources 6 and 1 were resolved to 10.0.0.0/24: AS6 guessed its way to AS2,
\* AS1 has the observed path 1 2 5, and both paths run over the hop 2 -> 5
C19_Witness ==
    /\ pc = "saved"
    /\ op.args[2] = <<6, 1>>
    /\ ret.paths = {<<6, 2, 5>>, <<1, 2, 5>>}
    /\ 6 \in ret.guessed_upstreams
    /\ {<<e.n1, e.n2, e.style>> : e \in AsEdges} =
          {<<AS(6), AS(2), "dashed">>, <<AS(2), AS(5), "">>, <<AS(1), AS(2), "">>}

\* the positions of the body that hold an edge statement
EdgeAt == {i \in 1..Len(dot) : dot[i].n2 # <<>>}

\* C21: graph() draws each (from, to) pair at most once, however many result
\* paths hold it, the edge from a path's last ASN to the node of the
\* destination prefix included, and the last ASN of every result path has
\* its edge to that node.
C21_EdgesDrawnOnce ==
    pc = "saved" =>
        /\ \A i, j \in EdgeAt :
              (dot[i].n1 = dot[j].n1 /\ dot[i].n2 = dot[j].n2) => i = j
        /\ \A p \in ret.paths :
              Cardinality({i \in EdgeAt : /\ dot[i].n1 = AS(p[Len(p)])
                                          /\ dot[i].n2 = dest_prefix}) = 1
        /\ \A i \in EdgeAt :
              dot[i].n2 = dest_prefix =>
                  \E p \in ret.paths : dot[i].n1 = AS(p[Len(p)])

\* two result paths share the hop 2 -> 5 and their last ASN: four edges
C21_Witness ==
    /\ pc = "saved"
    /\ ret.paths = {<<6, 2, 5>>, <<1, 2, 5>>}
    /\ Cardinality(EdgeAt) = 4
    /\ \E i \in EdgeAt : dot[i].n1 = AS(5) /\ dot[i].n2 = dest_prefix

---------------------------------------------------------------------------
(* Claims about the clearnet algorithm, checked under SpecClearnet *)

\* a clearnet call for one source ASN that is not tier-1, whose prefix
\* resolves and is on no stored path with the source, has ended
ClearnetDone ==
    /\ pc = "done"
    /\ op.name = "asns_paths_to_prefix"
    /\ algo = "clearnet"
    /\ Len(op.args[2]) = 1
    /\ op.args[2][1] \notin TIER1_ASNS
    /\ \A prefix \in get_most_specific_prefix(db, op.args[1]) :
          /\ prefix # ValueError
          /\ collector_paths(db, prefix, op.args[2][1]) = {}

\* the concatenation that holds the junction once: the fragment from the
\* tier-1 ASN on, without its first hop, follows the source's fragment
JoinedAt(source_path_to_t1, t1_path_to_origin) ==
    source_path_to_t1 \o SubSeq(t1_path_to_origin, 2, Len(t1_path_to_origin))

\* C22: in the clearnet mode, for a source that is not tier-1 and has no
\* observed path to the prefix, the call does not raise, and every returned
\* path is a shortest stored fragment from the source to a tier-1 ASN T
\* followed by a shortest stored fragment from T to an origin of the prefix:
\* it starts with the source, ends with an origin and holds T once.
\* Line 230 concatenates the two fragments as they are, so T is on the path
\* twice, and min() of line 226 raises when no tier-1 fragment exists.
C22_ClearnetJoinsShortestFragments ==
    ClearnetDone =>
        /\ ret # ValueError
        /\ LET asn == op.args[2][1]
               origins == origin_ases(db, ret.prefix)
               fragments == t1_paths_to_origin(db, origins)
               sources == _get_shortest_sublists(source_paths_to_t1s(db, asn),
                                                 float_inf, {}).result
           IN  \A path \in ret.paths :
                  /\ path[1] = asn
                  /\ path[Len(path)] \in origins
                  /\ \E s \in sources :
                        \E t \in shortest_t1_to_origin(fragments, s[Len(s)]) :
                            /\ path = JoinedAt(s, t)
                            /\ Cardinality({i \in 1..Len(path) :
                                               path[i] = s[Len(s)]}) = 1

---------------------------------------------------------------------------
(* Claims about address families in the ROA validator, checked under SpecRoa *)

\* C23: ROA checks never match across address families: check_roa and
\* get_valid_origins on a 16-byte prefix return no entry with a 4-byte
\* network, and the other way round.  Neither query compares the width of
\* the blobs, and memcmp order lets a 4-byte network and broadcast address
\* enclose a 16-byte prefix that starts with bytes in their range.
C23_RoaFamiliesApart ==
    /\ op.name = "check_roa" =>
          \A i \in 1..Len(ret) : Len(ret[i].network) = Len(op.args[1].address)
    /\ op.name = "get_valid_origins" =>
          \A asn \in DOMAIN ret : \A roa \in ret[asn] :
              roa[1].family = get_cidr(op.args[1].address, op.args[1].length).family

---------------------------------------------------------------------------
(* Claims about the order of the records, checked under SpecMain *)

\* the records read so far, in the order `order` of their positions
Permuted(order) == [i \in 1..Len(order) |-> yielded(records, 1)[order[i]]]

\* C24: the store parse_mrt builds depends only on the set of the records it
\* has read, not on their order or multiplicity: the same records in any
\* other order give the same tables, and so does the same sequence with one
\* of its records appended again.  The rows of Paths are INSERT OR IGNORE
\* under path_id = hash(as_path): of two paths with the same hash the one
\* read first keeps the rows, so the order decides which hops are stored.
C24_OrderAndMultiplicityFree ==
    Ingesting =>
        /\ \A order \in Orders(1..Len(yielded(records, 1))) :
              main(argv.registry_path, <<Permuted(order)>>) = db
        /\ \A i \in 1..Len(yielded(records, 1)) :
              main(argv.registry_path,
                   <<yielded(records, 1) \o <<yielded(records, 1)[i]>> >>) = db

---------------------------------------------------------------------------
(* Claims about the ends of the resolved paths, checked under SpecColliding *)

\* the ASNs recorded as origins of the prefix
RecordedOrigins(d, prefix) ==
    {r.asn : r \in {r \in d.Announcements :
                       /\ r.prefix_network = prefix.network_address
                       /\ r.prefix_length = prefix.prefixlen}}

\* C25: on a store built by ingestion, every path of the merged result of a
\* dn42 query over a non-empty list of sources starts with one of the
\* requested sources and ends with an ASN recorded as an origin of the
\* resolved prefix, observed or guessed.  When the path of an announcement
\* of the prefix has the path_id of a path stored before it, the hops read
\* back are the other path's, and their last ASN is no origin of the prefix.
C25_PathsFromSourceToOrigin ==
    ResolverDone =>
        \A path \in ret.paths :
            /\ path[1] \in Range(op.args[2])
            /\ path[Len(path)] \in RecordedOrigins(db, ret.prefix)

=============================================================================
